---------------------------- MODULE Spec2Model ----------------------------
(***************************************************************************)
(* Truffle mesh networking: the election coordinator (PrimaryElection),    *)
(* the device table (DeviceManager), the connection rows of the transport  *)
(* (WebSocketTransport) and the mesh node (MeshNode) that composes them.   *)
(*                                                                         *)
(* Device ids are strings; a string is modelled as the sequence of its     *)
(* character codes, so that String.localeCompare is a computed order.      *)
(* A JS Map whose iteration order is observable (the candidate map) is a   *)
(* sequence in insertion order; the device map and the connection map are  *)
(* functions, since every loop over them in the modelled code is           *)
(* insensitive to the order of iteration.                                  *)
(***************************************************************************)
EXTENDS Integers, Sequences, FiniteSets, TLC

VARIABLES
    node,     \* node[n]: the objects owned by the MeshNode of device n
    net,      \* net[<<d, a>>]: the stream dialled by d and accepted by a
    now,      \* Date.now()
    last,     \* the handler that ran last: its name, node, output, events
    log,      \* the 'message' events surfaced so far, per node
    budget    \* the environment steps left

vars == <<node, net, now, last, log, budget>>

-----------------------------------------------------------------------------
(* Bounds of the model *)

MaxNow == 1       \* the clock runs from 0 to MaxNow
MaxUptime == 1    \* a peer's candidacy states an uptime in 0..MaxUptime
MaxConn == 2      \* connections the environment opens to a node
MaxEnv == 3       \* frames the environment delivers to a node
MaxApp == 1           \* envelopes the application sends
MaxReports == 2       \* tailnet reports of the sidecars of two nodes
MaxMeshReports == 3   \* tailnet reports of the sidecars of three nodes
MaxFrames == 2        \* frames one transport receives
MaxCalls == 2         \* calls of the owner of a transport

-----------------------------------------------------------------------------
(* Strings and device ids *)

Null == <<>>

DevA == <<1>>
DevB == <<1, 2>>
DevC == <<2>>

DeviceIds == {DevA, DevB, DevC}

RECURSIVE localeCompare(_, _)
localeCompare(a, b) ==
    IF a = <<>> /\ b = <<>> THEN 0
    ELSE IF a = <<>> THEN -1
    ELSE IF b = <<>> THEN 1
    ELSE IF Head(a) < Head(b) THEN -1
    ELSE IF Head(a) > Head(b) THEN 1
    ELSE localeCompare(Tail(a), Tail(b))

-----------------------------------------------------------------------------
(* PrimaryElection.selectWinner *)

\* A faulty comparator: the shorter uptime is ranked first.
compareCandidatesShortestUptime(a, b) ==
    IF a.userDesignated # b.userDesignated
    THEN (IF a.userDesignated THEN -1 ELSE 1)
    ELSE IF a.uptime # b.uptime
    THEN a.uptime - b.uptime
    ELSE localeCompare(a.deviceId, b.deviceId)

compareCandidates(a, b) ==
    IF a.userDesignated # b.userDesignated
    THEN (IF a.userDesignated THEN -1 ELSE 1)
    ELSE IF a.uptime # b.uptime
    THEN b.uptime - a.uptime
    ELSE localeCompare(a.deviceId, b.deviceId)

\* Array.prototype.sort is stable: an element goes after every element that
\* does not compare greater than it.
RECURSIVE insertSorted(_, _)
insertSorted(sorted, x) ==
    IF sorted = <<>> THEN <<x>>
    ELSE IF compareCandidates(Head(sorted), x) <= 0
    THEN <<Head(sorted)>> \o insertSorted(Tail(sorted), x)
    ELSE <<x>> \o sorted

RECURSIVE sortCandidates(_)
sortCandidates(cs) ==
    IF cs = <<>> THEN <<>>
    ELSE insertSorted(sortCandidates(SubSeq(cs, 1, Len(cs) - 1)), cs[Len(cs)])

selectWinner(cs) ==
    IF Len(cs) = 0 THEN Null ELSE sortCandidates(cs)[1]

\* Map.set: an existing key keeps its place, a new key goes last.
candidatesSet(cs, payload) ==
    IF \E i \in 1..Len(cs) : cs[i].deviceId = payload.deviceId
    THEN [i \in 1..Len(cs) |->
            IF cs[i].deviceId = payload.deviceId THEN payload ELSE cs[i]]
    ELSE Append(cs, payload)

-----------------------------------------------------------------------------
(* Events and frames produced by a handler *)

\* F applied to the value of x: an argument is evaluated once, before the
\* call, as it is in the program.
eval(x, F(_)) == CHOOSE r \in {F(v) : v \in {x}} : TRUE

emit(s, e) == [s EXCEPT !.events = Append(@, e)]

meshEnvelope(message) ==
    [namespace |-> "mesh", type |-> "message", payload |-> message]

\* The payload {} of election:start.
EmptyPayload == [empty |-> TRUE]

createMeshMessage(type, from, payload) ==
    [type |-> type, from |-> from, payload |-> payload]

-----------------------------------------------------------------------------
(* WebSocketTransport: rows, index, sendRaw *)

DialId(deviceId) == <<"dial", deviceId>>
IncomingId(tsnetId) == <<"incoming", tsnetId>>

\* getConnectionByDeviceId(deviceId) is non-null: the index names a row
\* that is in the connection map.
hasConnectionByDeviceId(s, deviceId) ==
    /\ s.deviceToConnection[deviceId] # Null
    /\ s.deviceToConnection[deviceId] \in DOMAIN s.connections

getConnectionByDeviceId(s, deviceId) ==
    s.connections[s.deviceToConnection[deviceId]]

\* An outgoing row with a device id goes to the sidecar's dialSend, keyed by
\* that device id; any other row to sendToConnection, keyed by the tsnet id.
sendRawOk(s, connectionId) ==
    /\ connectionId \in DOMAIN s.connections
    /\ s.connections[connectionId].status = "connected"

sendRaw(s0, connectionId, data) ==
    eval(s0, LAMBDA s :
        IF ~sendRawOk(s, connectionId) THEN s
        ELSE LET conn == s.connections[connectionId]
             IN  IF conn.direction = "outgoing" /\ conn.deviceId # Null
                 THEN [s EXCEPT !.out = Append(@,
                         [via |-> "dial", key |-> conn.deviceId, data |-> data])]
                 ELSE [s EXCEPT !.out = Append(@,
                         [via |-> "ws", key |-> connectionId[2], data |-> data])])

-----------------------------------------------------------------------------
(* MeshNode: control-plane sends *)

sendMeshMessageRaw(s, connectionId, message) ==
    sendRaw(s, connectionId, meshEnvelope(message))

RECURSIVE broadcastOver(_, _, _)
broadcastOver(s0, ids, message) ==
    eval(s0, LAMBDA s :
        IF ids = {} THEN s
        ELSE LET id == CHOOSE x \in ids : TRUE
                 s1 == IF s.connections[id].status = "connected"
                       THEN sendMeshMessageRaw(s, id, message) ELSE s
             IN  broadcastOver(s1, ids \ {id}, message))

broadcastMeshMessage(s0, message) ==
    eval(s0, LAMBDA s :
        broadcastOver(s, DOMAIN s.connections, message))

getLocalDevice(self, s) ==
    [id |-> self, status |-> s.localStatus, role |-> s.localRole,
     dns |-> s.localDns]

getDevices(s) == {s.devices[d] : d \in DOMAIN s.devices}

broadcastAnnounce(self, s0) ==
    eval(s0, LAMBDA s :
        broadcastMeshMessage(s,
            createMeshMessage("device:announce", self,
                              [device |-> getLocalDevice(self, s)])))

broadcastGoodbye(self, s) ==
    broadcastMeshMessage(s,
        createMeshMessage("device:goodbye", self, [deviceId |-> self]))

broadcastDeviceList(self, s0) ==
    eval(s0, LAMBDA s :
        broadcastMeshMessage(s,
            createMeshMessage("device:list", self,
                [devices |-> {getLocalDevice(self, s)} \cup getDevices(s),
                 primaryId |-> self])))

\* deviceManager.on('localDeviceChanged')
onLocalDeviceChanged(self, s0) ==
    eval(s0, LAMBDA s :
        IF s.running THEN broadcastAnnounce(self, s) ELSE s)

-----------------------------------------------------------------------------
(* DeviceManager: roles *)

setLocalRole(self, s0, role) ==
    eval(s0, LAMBDA s :
        IF s.localRole = role THEN s
        ELSE LET s1 == [s EXCEPT !.localRole = role,
                                 !.dmPrimaryId =
                                     IF role = "primary" THEN self ELSE @]
             IN  onLocalDeviceChanged(self, s1))

setDeviceRole(s0, deviceId, role) ==
    eval(s0, LAMBDA s :
        IF deviceId \in DOMAIN s.devices /\ s.devices[deviceId].role # role
        THEN LET s1 == [s EXCEPT !.devices[deviceId].role = role]
             IN  IF role = "primary"
                 THEN emit([s1 EXCEPT !.dmPrimaryId = deviceId],
                           [ev |-> "primaryChanged", primaryId |-> deviceId])
                 ELSE s1
        ELSE s)

RECURSIVE setDeviceRoles(_, _, _)
setDeviceRoles(s0, ids, primary) ==
    eval(s0, LAMBDA s :
        IF ids = {} THEN s
        ELSE LET d == CHOOSE x \in ids : TRUE
             IN  setDeviceRoles(
                     setDeviceRole(s, d,
                         IF d = primary THEN "primary" ELSE "secondary"),
                     ids \ {d}, primary))

\* election.on('primaryElected')
onPrimaryElected(self, s, deviceId, isLocal) ==
    LET role == IF isLocal THEN "primary" ELSE "secondary"
        s1 == setLocalRole(self, s, role)
        s2 == setDeviceRoles(s1, DOMAIN s1.devices, deviceId)
        s3 == emit(s2, [ev |-> "roleChanged", role |-> role])
    IN  IF isLocal THEN broadcastDeviceList(self, s3) ELSE s3

-----------------------------------------------------------------------------
(* PrimaryElection *)

isPrimary(self, s) == s.config /\ s.primaryId = self

clearTimeout(s0) ==
    eval(s0, LAMBDA s :
        IF s.timeoutHandle # "null" THEN [s EXCEPT !.timeoutHandle = "null"] ELSE s)

clearGracePeriod(s0) ==
    eval(s0, LAMBDA s :
        IF s.gracePeriodHandle # "null"
        THEN [s EXCEPT !.gracePeriodHandle = "null"] ELSE s)

\* election.on('broadcast')
emitBroadcast(s, message) ==
    broadcastMeshMessage(
        emit(s, [ev |-> "broadcast", type |-> message.type]), message)

emitPrimaryElected(self, s, deviceId, isLocal) ==
    onPrimaryElected(self,
        emit(s, [ev |-> "primaryElected", deviceId |-> deviceId,
                 isLocal |-> isLocal]),
        deviceId, isLocal)

setPrimary(s, deviceId) ==
    [s EXCEPT !.primaryId = deviceId, !.phase = "idle"]

\* A faulty handlePrimaryLost: the grace timer is not armed.
handlePrimaryLostNoTimer(s0, previousPrimaryId) ==
    eval(s0, LAMBDA s :
        IF ~s.config THEN s
        ELSE [emit([s EXCEPT !.primaryId = Null],
                   [ev |-> "primaryLost", deviceId |-> previousPrimaryId])
                EXCEPT !.phase = "waiting", !.gracePeriodHandle = "null"])

handlePrimaryLost(s0, previousPrimaryId) ==
    eval(s0, LAMBDA s :
        IF ~s.config THEN s
        ELSE LET s1 == emit([s EXCEPT !.primaryId = Null],
                            [ev |-> "primaryLost", deviceId |-> previousPrimaryId])
                 s2 == clearGracePeriod(s1)
             IN  [s2 EXCEPT !.phase = "waiting", !.gracePeriodHandle = "armed"])

myCandidate(self, s) ==
    [deviceId |-> self, uptime |-> now - s.startedAt,
     userDesignated |-> s.preferPrimary]

startElection(self, s0) ==
    eval(s0, LAMBDA s :
        IF ~s.config THEN s
        ELSE IF s.phase = "collecting" THEN s
        ELSE LET s1 == clearTimeout([s EXCEPT !.phase = "collecting",
                                              !.candidates = <<>>])
                 mine == myCandidate(self, s1)
                 s2 == [s1 EXCEPT !.candidates = candidatesSet(@, mine)]
                 s3 == emitBroadcast(s2,
                           createMeshMessage("election:start", self, EmptyPayload))
                 s4 == emitBroadcast(s3,
                           createMeshMessage("election:candidate", self, mine))
                 s5 == emit(s4, [ev |-> "electionStarted"])
             IN  [s5 EXCEPT !.timeoutHandle = "armed"])

handleNoPrimaryOnStartup(self, s0) ==
    eval(s0, LAMBDA s :
        IF ~s.config THEN s ELSE startElection(self, s))

becomePrimary(self, s0) ==
    eval(s0, LAMBDA s :
        IF ~s.config THEN s
        ELSE LET s1 == [s EXCEPT !.primaryId = self, !.phase = "decided"]
                 s2 == emitBroadcast(s1,
                           createMeshMessage("election:result", self,
                               [newPrimaryId |-> self, reason |-> "election"]))
             IN  emitPrimaryElected(self, s2, self, TRUE))

decideElection(self, s0) ==
    eval(s0, LAMBDA s :
        IF ~s.config THEN s
        ELSE LET winner == selectWinner(s.candidates)
             IN  IF Len(s.candidates) = 0 THEN becomePrimary(self, s)
                 ELSE IF winner.deviceId = self THEN becomePrimary(self, s)
                 ELSE emitPrimaryElected(self,
                          [s EXCEPT !.primaryId = winner.deviceId,
                                    !.phase = "decided"],
                          winner.deviceId, FALSE))

\* A faulty handleElectionStart: a node that is collecting joins again.
handleElectionStartRejoins(self, s0, from) ==
    eval(s0, LAMBDA s :
        IF ~s.config THEN s
        ELSE LET s1 == clearTimeout([s EXCEPT !.phase = "collecting",
                                              !.candidates = <<>>])
                 mine == myCandidate(self, s1)
                 s2 == [s1 EXCEPT !.candidates = candidatesSet(@, mine)]
                 s3 == emitBroadcast(s2,
                           createMeshMessage("election:candidate", self, mine))
             IN  [s3 EXCEPT !.timeoutHandle = "armed"])

handleElectionStart(self, s0, from) ==
    eval(s0, LAMBDA s :
        IF ~s.config THEN s
        ELSE IF s.phase = "collecting" THEN s
        ELSE LET s1 == clearTimeout([s EXCEPT !.phase = "collecting",
                                              !.candidates = <<>>])
                 mine == myCandidate(self, s1)
                 s2 == [s1 EXCEPT !.candidates = candidatesSet(@, mine)]
                 s3 == emitBroadcast(s2,
                           createMeshMessage("election:candidate", self, mine))
             IN  [s3 EXCEPT !.timeoutHandle = "armed"])

handleElectionCandidate(s0, from, payload) ==
    eval(s0, LAMBDA s :
        IF ~s.config THEN s
        ELSE [s EXCEPT !.candidates = candidatesSet(@, payload)])

\* A faulty handleElectionResult: the grace timer is left armed.
handleElectionResultKeepsGrace(self, s0, from, payload) ==
    eval(s0, LAMBDA s :
        IF ~s.config THEN s
        ELSE LET s1 == clearTimeout(s)
                 s2 == [s1 EXCEPT !.primaryId = payload.newPrimaryId,
                                  !.phase = "decided",
                                  !.candidates = <<>>]
             IN  emitPrimaryElected(self, s2, payload.newPrimaryId,
                                    payload.newPrimaryId = self))

handleElectionResult(self, s0, from, payload) ==
    eval(s0, LAMBDA s :
        IF ~s.config THEN s
        ELSE LET s1 == clearGracePeriod(clearTimeout(s))
                 s2 == [s1 EXCEPT !.primaryId = payload.newPrimaryId,
                                  !.phase = "decided",
                                  !.candidates = <<>>]
             IN  emitPrimaryElected(self, s2, payload.newPrimaryId,
                                    payload.newPrimaryId = self))

reset(s) ==
    [s EXCEPT !.phase = "idle", !.primaryId = Null, !.candidates = <<>>,
              !.timeoutHandle = "null", !.gracePeriodHandle = "null"]

-----------------------------------------------------------------------------
(* WebSocketTransport: rows *)

NoDevices == [d \in {} |-> 0]
NoConnections == [c \in {} |-> 0]

Row(id, deviceId, direction, status) ==
    [id |-> id, deviceId |-> deviceId, direction |-> direction,
     status |-> status, lastActivityTime |-> now]

dropRow(s0, connectionId) ==
    eval(s0, LAMBDA s :
        [s EXCEPT !.connections =
            [c \in DOMAIN s.connections \ {connectionId} |-> s.connections[c]]])

putRow(s0, row) ==
    eval(s0, LAMBDA s :
        [s EXCEPT !.connections =
            [c \in DOMAIN s.connections \cup {row.id} |->
                IF c = row.id THEN row ELSE s.connections[c]]])

indexDelete(s0, deviceId) ==
    eval(s0, LAMBDA s :
        IF deviceId = Null THEN s
        ELSE [s EXCEPT !.deviceToConnection[deviceId] = Null])

setConnectionDeviceId(s0, connectionId, deviceId) ==
    eval(s0, LAMBDA s :
        IF connectionId \notin DOMAIN s.connections THEN s
        ELSE LET s1 == indexDelete(s, s.connections[connectionId].deviceId)
             IN  [s1 EXCEPT !.connections[connectionId].deviceId = deviceId,
                            !.deviceToConnection[deviceId] = connectionId])

-----------------------------------------------------------------------------
(* DeviceManager: device lifecycle *)

putDevice(s0, device) ==
    eval(s0, LAMBDA s :
        [s EXCEPT !.devices =
            [d \in DOMAIN s.devices \cup {device.id} |->
                IF d = device.id THEN device ELSE s.devices[d]]])

\* A device that arrives without a DNS name keeps the one already known.
keepDns(s0, device) ==
    eval(s0, LAMBDA s :
        IF /\ device.id \in DOMAIN s.devices
           /\ s.devices[device.id].dns # Null
           /\ device.dns = Null
        THEN [device EXCEPT !.dns = s.devices[device.id].dns]
        ELSE device)

handleDeviceAnnounce(s0, from, payload) ==
    eval(s0, LAMBDA s :
        putDevice(s, keepDns(s, payload.device)))

RECURSIVE upsertDevices(_, _, _)
upsertDevices(self, s0, devs) ==
    eval(s0, LAMBDA s :
        IF devs = {} THEN s
        ELSE LET device == CHOOSE x \in devs : TRUE
                 s1 == IF device.id # self
                       THEN putDevice(s, keepDns(s, device)) ELSE s
             IN  upsertDevices(self, s1, devs \ {device}))

handleDeviceList(self, s, from, payload) ==
    LET s1 == upsertDevices(self, s, payload.devices)
    IN  IF payload.primaryId = Null THEN s1
        ELSE emit(
            [s1 EXCEPT
                !.dmPrimaryId = payload.primaryId,
                !.localRole = IF payload.primaryId = self
                              THEN "primary" ELSE "secondary",
                !.devices = [d \in DOMAIN s1.devices |->
                    [s1.devices[d] EXCEPT !.role =
                        IF d = payload.primaryId
                        THEN "primary" ELSE "secondary"]]],
            [ev |-> "primaryChanged", primaryId |-> payload.primaryId])

\* deviceManager.on('deviceOffline')
onDeviceOffline(s0, deviceId) ==
    eval(s0, LAMBDA s :
        IF deviceId = s.primaryId THEN handlePrimaryLost(s, deviceId) ELSE s)

markDeviceOffline(s0, deviceId) ==
    eval(s0, LAMBDA s :
        IF deviceId \notin DOMAIN s.devices THEN s
        ELSE LET s1 == [s EXCEPT !.devices[deviceId].status = "offline"]
                 s2 == onDeviceOffline(
                           emit(s1, [ev |-> "deviceOffline",
                                     deviceId |-> deviceId]),
                           deviceId)
             IN  IF deviceId = s2.dmPrimaryId
                 THEN emit([s2 EXCEPT !.dmPrimaryId = Null],
                           [ev |-> "primaryChanged", primaryId |-> Null])
                 ELSE s2)

handleDeviceGoodbye(s, deviceId) == markDeviceOffline(s, deviceId)

-----------------------------------------------------------------------------
(* MeshNode: envelope API *)

LocalId == <<"local">>

messageEvent(from, connectionId, envelope) ==
    [ev |-> "message", from |-> from, connectionId |-> connectionId,
     namespace |-> envelope.namespace, type |-> envelope.type,
     payload |-> envelope.payload]

routeMessage(targetDeviceId, envelope) ==
    [namespace |-> "mesh", type |-> "route:message",
     payload |-> [targetDeviceId |-> targetDeviceId, envelope |-> envelope]]

routeBroadcast(envelope) ==
    [namespace |-> "mesh", type |-> "route:broadcast",
     payload |-> [envelope |-> envelope]]

\* The result of the call is left in ret.
sendEnvelopeDirect(s0, deviceId, envelope) ==
    eval(s0, LAMBDA s :
        IF ~hasConnectionByDeviceId(s, deviceId) THEN [s EXCEPT !.ret = FALSE]
        ELSE LET conn == getConnectionByDeviceId(s, deviceId)
             IN  [sendRaw(s, conn.id, envelope) EXCEPT
                     !.ret = sendRawOk(s, conn.id)])

sendEnvelope(self, s0, deviceId, envelope) ==
    eval(s0, LAMBDA s :
        IF deviceId = self
        THEN [emit(s, messageEvent(self, LocalId, envelope)) EXCEPT !.ret = TRUE]
        ELSE IF ~hasConnectionByDeviceId(s, deviceId)
        THEN IF ~isPrimary(self, s) /\ s.primaryId # Null
             THEN sendEnvelopeDirect(s, s.primaryId,
                                     routeMessage(deviceId, envelope))
             ELSE [s EXCEPT !.ret = FALSE]
        ELSE sendEnvelopeDirect(s, deviceId, envelope))

\* for (const conn of getConnections()) if (conn.deviceId && connected)
RECURSIVE directOverConnected(_, _, _)
directOverConnected(s0, ids, envelope) ==
    eval(s0, LAMBDA s :
        IF ids = {} THEN s
        ELSE LET id == CHOOSE x \in ids : TRUE
                 c == s.connections[id]
                 s1 == IF c.deviceId # Null /\ c.status = "connected"
                       THEN sendEnvelopeDirect(s, c.deviceId, envelope) ELSE s
             IN  directOverConnected(s1, ids \ {id}, envelope))

broadcastEnvelope(self, s0, envelope) ==
    eval(s0, LAMBDA s :
        IF isPrimary(self, s)
        THEN emit(directOverConnected(s, DOMAIN s.connections, envelope),
                  messageEvent(self, LocalId, envelope))
        ELSE IF s.primaryId # Null
        THEN sendEnvelopeDirect(s, s.primaryId, routeBroadcast(envelope))
        ELSE s)

-----------------------------------------------------------------------------
(* MeshNode: incoming data *)

\* for (const c of getConnections()) if (c.deviceId && c.deviceId !== from)
RECURSIVE directOverOthers(_, _, _, _)
directOverOthers(s0, ids, from, envelope) ==
    eval(s0, LAMBDA s :
        IF ids = {} THEN s
        ELSE LET id == CHOOSE x \in ids : TRUE
                 c == s.connections[id]
                 s1 == IF c.deviceId # Null /\ c.deviceId # from
                       THEN sendEnvelopeDirect(s, c.deviceId, envelope) ELSE s
             IN  directOverOthers(s1, ids \ {id}, from, envelope))

connDeviceId(s, connectionId) ==
    IF connectionId \in DOMAIN s.connections
    THEN s.connections[connectionId].deviceId ELSE Null

\* A faulty handleRouteEnvelope: route:message is served by any node.
handleRouteEnvelopeAnyRole(self, s0, connectionId, envelope) ==
    eval(s0, LAMBDA s :
        LET fromDeviceId == connDeviceId(s, connectionId)
        IN  IF envelope.type = "route:message"
            THEN sendEnvelopeDirect(s, envelope.payload.targetDeviceId,
                                    envelope.payload.envelope)
            ELSE IF envelope.type = "route:broadcast"
            THEN IF ~isPrimary(self, s) THEN s
                 ELSE emit(directOverOthers(s, DOMAIN s.connections,
                               fromDeviceId, envelope.payload.envelope),
                           messageEvent(fromDeviceId, connectionId,
                                        envelope.payload.envelope))
            ELSE s)

handleRouteEnvelope(self, s0, connectionId, envelope) ==
    eval(s0, LAMBDA s :
        LET fromDeviceId == connDeviceId(s, connectionId)
        IN  IF envelope.type = "route:message"
            THEN IF ~isPrimary(self, s) THEN s
                 ELSE sendEnvelopeDirect(s, envelope.payload.targetDeviceId,
                                         envelope.payload.envelope)
            ELSE IF envelope.type = "route:broadcast"
            THEN IF ~isPrimary(self, s) THEN s
                 ELSE emit(directOverOthers(s, DOMAIN s.connections,
                               fromDeviceId, envelope.payload.envelope),
                           messageEvent(fromDeviceId, connectionId,
                                        envelope.payload.envelope))
            ELSE s)

handleMeshMessageInternal(self, s0, message) ==
    eval(s0, LAMBDA s :
        CASE message.type = "device:announce" ->
                handleDeviceAnnounce(s, message.from, message.payload)
          [] message.type = "device:list" ->
                LET s1 == handleDeviceList(self, s, message.from, message.payload)
                IN  IF message.payload.primaryId # Null
                    THEN setPrimary(s1, message.payload.primaryId) ELSE s1
          [] message.type = "device:goodbye" ->
                handleDeviceGoodbye(s, message.from)
          [] message.type = "election:start" ->
                handleElectionStart(self, s, message.from)
          [] message.type = "election:candidate" ->
                handleElectionCandidate(s, message.from, message.payload)
          [] message.type = "election:result" ->
                handleElectionResult(self, s, message.from, message.payload)
          [] OTHER -> s)

handleIncomingData(self, s0, connectionId, envelope) ==
    eval(s0, LAMBDA s :
        IF envelope.namespace = "mesh"
        THEN IF envelope.type = "message"
             THEN LET message == envelope.payload
                      s1 == IF message.type = "device:announce"
                            THEN setConnectionDeviceId(s, connectionId,
                                     message.payload.device.id)
                            ELSE s
                  IN  handleMeshMessageInternal(self, s1, message)
             ELSE handleRouteEnvelope(self, s, connectionId, envelope)
        ELSE emit(s, messageEvent(connDeviceId(s, connectionId), connectionId,
                                  envelope)))

-----------------------------------------------------------------------------
(* MeshNode: transport listeners *)

\* A faulty 'connected' listener: the announce only, also on the primary.
onConnectedWithoutList(self, s, connectionId) ==
    sendMeshMessageRaw(s, connectionId,
        createMeshMessage("device:announce", self,
                          [device |-> getLocalDevice(self, s)]))

\* transport.on('connected')
onConnected(self, s0, connectionId) ==
    eval(s0, LAMBDA s :
        LET s1 == sendMeshMessageRaw(s, connectionId,
                      createMeshMessage("device:announce", self,
                                        [device |-> getLocalDevice(self, s)]))
        IN  IF isPrimary(self, s1)
            THEN sendMeshMessageRaw(s1, connectionId,
                     createMeshMessage("device:list", self,
                         [devices |-> {getLocalDevice(self, s1)}
                                          \cup getDevices(s1),
                          primaryId |-> self]))
            ELSE s1)

RECURSIVE markUnconnectedOffline(_, _)
markUnconnectedOffline(s0, ids) ==
    eval(s0, LAMBDA s :
        IF ids = {} THEN s
        ELSE LET d == CHOOSE x \in ids : TRUE
                 s1 == IF ~hasConnectionByDeviceId(s, d)
                       THEN markDeviceOffline(s, d) ELSE s
             IN  markUnconnectedOffline(s1, ids \ {d}))

\* transport.on('disconnected')
onDisconnected(s) == markUnconnectedOffline(s, DOMAIN s.devices)

-----------------------------------------------------------------------------
(* WebSocketTransport: sidecar events *)

disconnected(connectionId, reason) ==
    [ev |-> "disconnected", connectionId |-> connectionId, reason |-> reason]

handleWsConnect(self, s, tsnetConnectionId) ==
    LET connectionId == IncomingId(tsnetConnectionId)
    IN  onConnected(self,
            putRow(s, Row(connectionId, Null, "incoming", "connected")),
            connectionId)

handleWsDisconnect(s0, tsnetConnectionId) ==
    eval(s0, LAMBDA s :
        LET connectionId == IncomingId(tsnetConnectionId)
        IN  IF connectionId \notin DOMAIN s.connections THEN s
            ELSE onDisconnected(
                     emit(dropRow(indexDelete(s,
                                      s.connections[connectionId].deviceId),
                                  connectionId),
                          disconnected(connectionId, "remote_closed"))))

cancelReconnect(s, deviceId) ==
    [s EXCEPT !.reconnects = @ \ {deviceId},
              !.reconnectTimers = @ \ {deviceId},
              !.attempt[deviceId] = 0]

RECURSIVE pow2(_)
pow2(n) == IF n = 0 THEN 1 ELSE 2 * pow2(n - 1)

maxReconnectDelayMs == 30000

\* Math.min(1000 * Math.pow(2, attempt - 1), maxReconnectDelayMs)
reconnectDelayMs(attempt) ==
    IF 1000 * pow2(attempt - 1) < maxReconnectDelayMs
    THEN 1000 * pow2(attempt - 1) ELSE maxReconnectDelayMs

\* The record of the ledger counts the attempt and holds the timer.
scheduleReconnect(s0, deviceId) ==
    eval(s0, LAMBDA s :
        IF ~s.running \/ deviceId \notin s.reconnects THEN s
        ELSE emit([s EXCEPT !.attempt[deviceId] = @ + 1,
                            !.reconnectTimers = @ \cup {deviceId}],
                  [ev |-> "reconnecting", deviceId |-> deviceId,
                   attempt |-> s.attempt[deviceId] + 1,
                   delayMs |-> reconnectDelayMs(s.attempt[deviceId] + 1)]))

\* The placeholder row, the index entry, the reconnect record and the dial
\* command; the promise stays pending until dialConnected or its timeout.
connect(s0, deviceId) ==
    eval(s0, LAMBDA s :
        IF ~s.running THEN s
        ELSE IF /\ hasConnectionByDeviceId(s, deviceId)
                /\ getConnectionByDeviceId(s, deviceId).status = "connected"
        THEN [s EXCEPT !.ret = TRUE]
        ELSE LET connectionId == DialId(deviceId)
                 s1 == putRow(s, Row(connectionId, deviceId, "outgoing",
                                     "connecting"))
                 s2 == [s1 EXCEPT !.deviceToConnection[deviceId] = connectionId]
                 s3 == cancelReconnect(s2, deviceId)
             IN  [s3 EXCEPT !.reconnects = @ \cup {deviceId},
                            !.pendingDials[deviceId] = @ + 1,
                            !.out = Append(@, [via |-> "cmd", key |-> deviceId,
                                               data |-> "dial"])])

RECURSIVE repeatConnected(_, _, _, _)
repeatConnected(self, s0, connectionId, k) ==
    eval(s0, LAMBDA s :
        IF k = 0 THEN s
        ELSE repeatConnected(self, onConnected(self, s, connectionId),
                             connectionId, k - 1))

\* The transport's own listener runs first, then the listener of every
\* connect() call still pending for this device; each emits 'connected'.
handleDialConnected(self, s0, deviceId) ==
    eval(s0, LAMBDA s :
        LET connectionId == DialId(deviceId)
            s1 == IF connectionId \in DOMAIN s.connections
                  THEN onConnected(self,
                           [s EXCEPT !.connections[connectionId].status =
                                          "connected",
                                     !.connections[connectionId]
                                          .lastActivityTime = now,
                                     !.attempt[deviceId] = 0],
                           connectionId)
                  ELSE s
        IN  [repeatConnected(self, s1, connectionId, s.pendingDials[deviceId])
                EXCEPT !.pendingDials[deviceId] = 0,
                       !.pendingReconnects[deviceId] = 0])

handleDialDisconnect(s0, deviceId) ==
    eval(s0, LAMBDA s :
        LET connectionId == DialId(deviceId)
        IN  IF connectionId \notin DOMAIN s.connections THEN s
            ELSE scheduleReconnect(
                     onDisconnected(
                         emit(dropRow(indexDelete(s, deviceId), connectionId),
                              disconnected(connectionId, "remote_closed"))),
                     deviceId))

-----------------------------------------------------------------------------
(* WebSocketTransport: failed dials, close, heartbeat *)

dialClose(s, deviceId) ==
    [s EXCEPT !.out = Append(@, [via |-> "cmd", key |-> deviceId,
                                 data |-> "dialClose"])]

RECURSIVE repeatScheduleReconnect(_, _, _)
repeatScheduleReconnect(s0, deviceId, k) ==
    eval(s0, LAMBDA s :
        IF k = 0 THEN s
        ELSE repeatScheduleReconnect(scheduleReconnect(s, deviceId),
                                     deviceId, k - 1))

\* sidecar 'dialError': the listener of every connect() call pending for the
\* device removes the row and the index entry and rejects; the rejection of
\* a reconnect attempt schedules the next one.
dialError(s0, deviceId) ==
    eval(s0, LAMBDA s :
        IF s.pendingDials[deviceId] = 0 THEN s
        ELSE repeatScheduleReconnect(
                 [dropRow(indexDelete(s, deviceId), DialId(deviceId))
                     EXCEPT !.pendingDials[deviceId] = 0,
                            !.pendingReconnects[deviceId] = 0],
                 deviceId, s.pendingReconnects[deviceId]))

\* The 10 s timer of one pending connect() call.
connectTimeout(s0, deviceId, isReconnect) ==
    eval(s0, LAMBDA s :
        LET s1 == [dropRow(indexDelete(s, deviceId), DialId(deviceId))
                      EXCEPT !.pendingDials[deviceId] = @ - 1]
        IN  IF isReconnect
            THEN scheduleReconnect(
                     [s1 EXCEPT !.pendingReconnects[deviceId] = @ - 1],
                     deviceId)
            ELSE s1)

isOutgoingTo(conn) == conn.direction = "outgoing" /\ conn.deviceId # Null

closeConnection(s0, connectionId) ==
    eval(s0, LAMBDA s :
        IF connectionId \notin DOMAIN s.connections THEN s
        ELSE LET conn == s.connections[connectionId]
                 s1 == IF isOutgoingTo(conn)
                       THEN dialClose(s, conn.deviceId) ELSE s
             IN  onDisconnected(
                     emit(dropRow(indexDelete(s1, conn.deviceId), connectionId),
                          disconnected(connectionId, "closed_by_local"))))

\* The configured timeout, in ticks of the clock.
heartbeatTimeoutMs == 0

handleHeartbeatTimeout(s0, connectionId) ==
    eval(s0, LAMBDA s :
        IF connectionId \notin DOMAIN s.connections THEN s
        ELSE LET conn == s.connections[connectionId]
                 s1 == IF isOutgoingTo(conn)
                       THEN dialClose(s, conn.deviceId) ELSE s
                 s2 == onDisconnected(
                           emit(dropRow(indexDelete(s1, conn.deviceId),
                                        connectionId),
                                disconnected(connectionId,
                                             "heartbeat_timeout")))
             IN  IF isOutgoingTo(conn)
                 THEN scheduleReconnect(s2, conn.deviceId) ELSE s2)

\* A faulty tick: the connection is closed when the silence reaches the
\* timeout, not when it exceeds it.
heartbeatTickAtTimeout(s0, connectionId) ==
    eval(s0, LAMBDA s :
        IF ~sendRawOk(s, connectionId) THEN s
        ELSE IF now - s.connections[connectionId].lastActivityTime
                    >= heartbeatTimeoutMs
        THEN handleHeartbeatTimeout(s, connectionId)
        ELSE sendRaw(s, connectionId, [type |-> "ping", timestamp |-> now]))

heartbeatTick(s0, connectionId) ==
    eval(s0, LAMBDA s :
        IF ~sendRawOk(s, connectionId) THEN s
        ELSE IF now - s.connections[connectionId].lastActivityTime
                    > heartbeatTimeoutMs
        THEN handleHeartbeatTimeout(s, connectionId)
        ELSE sendRaw(s, connectionId, [type |-> "ping", timestamp |-> now]))

updateActivity(s0, connectionId) ==
    eval(s0, LAMBDA s :
        IF connectionId \in DOMAIN s.connections
        THEN [s EXCEPT !.connections[connectionId].lastActivityTime = now]
        ELSE s)

\* data.includes('"type":"t"'): the serialized frame has a member type with
\* the value t, at the top or inside its payload.
includesType(data, t) ==
    \/ data.type = t
    \/ /\ "payload" \in DOMAIN data
       /\ "type" \in DOMAIN data.payload
       /\ data.payload.type = t

\* The result of handleHeartbeatMessage.
isHeartbeatMessage(data) ==
    /\ includesType(data, "ping") \/ includesType(data, "pong")
    /\ data.type \in {"ping", "pong"}

\* The effect of handleHeartbeatMessage.
handleHeartbeatMessage(s, connectionId, data) ==
    IF isHeartbeatMessage(data) /\ data.type = "ping"
    THEN sendRaw(s, connectionId,
             IF "timestamp" \in DOMAIN data
             THEN [type |-> "pong", timestamp |-> now,
                   echoTimestamp |-> data.timestamp]
             ELSE [type |-> "pong", timestamp |-> now])
    ELSE s

\* this.emit('data', connectionId, data), heard by the mesh node.
emitData(self, s, connectionId, data) ==
    handleIncomingData(self,
        emit(s, [ev |-> "data", connectionId |-> connectionId, data |-> data]),
        connectionId, data)

handleWsMessage(self, s0, tsnetConnectionId, data) ==
    eval(s0, LAMBDA s :
        LET connectionId == IncomingId(tsnetConnectionId)
            s1 == updateActivity(s, connectionId)
        IN  IF isHeartbeatMessage(data)
            THEN handleHeartbeatMessage(s1, connectionId, data)
            ELSE emitData(self, s1, connectionId, data))

handleDialMessage(self, s0, deviceId, data) ==
    eval(s0, LAMBDA s :
        LET connectionId == DialId(deviceId)
            s1 == updateActivity(s, connectionId)
        IN  IF isHeartbeatMessage(data)
            THEN handleHeartbeatMessage(s1, connectionId, data)
            ELSE emitData(self, s1, connectionId, data))

-----------------------------------------------------------------------------
(* MeshNode: start and discovery *)

setLocalOnline(self, s) ==
    onLocalDeviceChanged(self, [s EXCEPT !.localStatus = "online"])

start(self, s0) ==
    eval(s0, LAMBDA s :
        IF s.running THEN s
        ELSE setLocalOnline(self,
                 [s EXCEPT !.startedAt = now, !.running = TRUE, !.config = TRUE]))

\* The loop of WebSocketTransport.stop over the rows.
RECURSIVE stopConnections(_, _)
stopConnections(s0, ids) ==
    eval(s0, LAMBDA s :
        IF ids = {} THEN s
        ELSE LET id == CHOOSE x \in ids : TRUE
                 conn == s.connections[id]
                 s1 == IF isOutgoingTo(conn)
                       THEN dialClose(s, conn.deviceId) ELSE s
             IN  stopConnections(
                     onDisconnected(
                         emit(dropRow(s1, id),
                              disconnected(id, "service_stopped"))),
                     ids \ {id}))

\* A faulty stop: the reconnect ledger and its timers are left alone.
transportStopKeepsReconnects(s0) ==
    eval(s0, LAMBDA s :
        [stopConnections(s, DOMAIN s.connections)
            EXCEPT !.deviceToConnection = [d \in DeviceIds |-> Null]])

transportStop(s0) ==
    eval(s0, LAMBDA s :
        LET s1 == stopConnections(
                      [s EXCEPT !.reconnects = {}, !.reconnectTimers = {},
                                !.attempt = [d \in DeviceIds |-> 0]],
                      DOMAIN s.connections)
        IN  [s1 EXCEPT !.deviceToConnection = [d \in DeviceIds |-> Null]])

setLocalOffline(self, s) ==
    onLocalDeviceChanged(self, [s EXCEPT !.localStatus = "offline"])

clear(s) == [s EXCEPT !.devices = NoDevices, !.dmPrimaryId = Null]

\* MeshNode.stop; the sidecar stops within the call.
stop(self, s0) ==
    eval(s0, LAMBDA s :
        IF ~s.running THEN s
        ELSE LET s1 == transportStop(broadcastGoodbye(self, s))
                 s2 == setLocalOffline(self, [s1 EXCEPT !.running = FALSE])
             IN  clear(reset(s2)))

addDiscoveredPeer(s0, peer) ==
    eval(s0, LAMBDA s :
        LET status == IF peer.online THEN "online" ELSE "offline"
        IN  IF peer.id \notin DOMAIN s.devices
            THEN putDevice(s, [id |-> peer.id, status |-> status,
                               role |-> "none", dns |-> peer.dns])
            ELSE [s EXCEPT !.devices[peer.id].status = status,
                           !.devices[peer.id].dns = peer.dns])

RECURSIVE discoverPeers(_, _, _)
discoverPeers(self, s0, peers) ==
    eval(s0, LAMBDA s :
        IF peers = {} THEN s
        ELSE LET peer == CHOOSE x \in peers : TRUE
                 s1 == addDiscoveredPeer(s, peer)
                 s2 == IF /\ peer.online
                          /\ \/ ~hasConnectionByDeviceId(s1, peer.id)
                             \/ getConnectionByDeviceId(s1, peer.id).status
                                    # "connected"
                       THEN connect(s1, peer.id) ELSE s1
             IN  discoverPeers(self, IF peer.id = self THEN s ELSE s2,
                               peers \ {peer}))

onlineDevices(s) == {d \in DOMAIN s.devices : s.devices[d].status = "online"}

handleTailnetPeers(self, s, peers) ==
    LET s1 == discoverPeers(self, s, peers)
    IN  IF s1.primaryId = Null /\ onlineDevices(s1) # {}
        THEN [s1 EXCEPT !.discoveryTimers = @ + 1]
        ELSE IF onlineDevices(s1) = {} /\ s1.primaryId = Null
        THEN emit(setPrimary(setLocalRole(self, s1, "primary"), self),
                  [ev |-> "roleChanged", role |-> "primary"])
        ELSE s1

\* setTimeout(..., discoveryTimeoutMs) of handleTailnetPeers
discoveryTimeout(self, s) ==
    LET s1 == [s EXCEPT !.discoveryTimers = @ - 1]
    IN  IF s1.primaryId = Null THEN handleNoPrimaryOnStartup(self, s1) ELSE s1

-----------------------------------------------------------------------------
(* Timers of one node *)

\* setTimeout(() => this.decideElection(), electionTimeoutMs)
roundTimeout(self, s) ==
    decideElection(self, [s EXCEPT !.timeoutHandle = "fired"])

\* setTimeout(() => this.startElection(), primaryLossGraceMs)
graceTimeout(self, s) ==
    startElection(self, [s EXCEPT !.gracePeriodHandle = "fired"])

\* setTimeout(() => this.connect(...), delayMs) of scheduleReconnect
\* The promise of this connect() is the one whose rejection schedules the
\* next attempt.
reconnectTimeout(s0, deviceId) ==
    eval(s0, LAMBDA s :
        IF ~s.running THEN [s EXCEPT !.reconnectTimers = @ \ {deviceId}]
        ELSE LET s1 == connect([s EXCEPT !.reconnectTimers = @ \ {deviceId}],
                               deviceId)
             IN  IF s1.pendingDials[deviceId] > s.pendingDials[deviceId]
                 THEN [s1 EXCEPT !.pendingReconnects[deviceId] = @ + 1]
                 ELSE s1)

-----------------------------------------------------------------------------
(* The state of a node after construction *)

NodeInit(preferPrimary) ==
    [running |-> FALSE, startedAt |-> 0,
     config |-> FALSE, preferPrimary |-> preferPrimary,
     phase |-> "idle", primaryId |-> Null, candidates |-> <<>>,
     timeoutHandle |-> "null", gracePeriodHandle |-> "null",
     discoveryTimers |-> 0,
     localRole |-> "none", localStatus |-> "offline", localDns |-> Null,
     dmPrimaryId |-> Null, devices |-> NoDevices,
     connections |-> NoConnections,
     deviceToConnection |-> [d \in DeviceIds |-> Null],
     reconnects |-> {}, reconnectTimers |-> {},
     attempt |-> [d \in DeviceIds |-> 0],
     pendingDials |-> [d \in DeviceIds |-> 0],
     pendingReconnects |-> [d \in DeviceIds |-> 0],
     out |-> <<>>, events |-> <<>>, ret |-> FALSE]

-----------------------------------------------------------------------------
(* The streams between sidecars *)

wsConnectEvent == [ev |-> "connect", data |-> Null]
disconnectEvent == [ev |-> "disconnect", data |-> Null]
streamMessage(data) == [ev |-> "message", data |-> data]

ClosedLink == [state |-> "closed", fwd |-> <<>>, back |-> <<>>]

\* One entry of a handler's output, applied to the streams: a dial command
\* starts a dial, a frame goes into the stream of its connection if that
\* stream is open and is lost otherwise.
flushOne(nt, self, o) ==
    IF o.via = "cmd"
    THEN IF <<self, o.key>> \notin DOMAIN nt THEN nt
         ELSE IF o.data = "dialClose"
         THEN [nt EXCEPT ![<<self, o.key>>] = ClosedLink]
         ELSE IF nt[<<self, o.key>>].state = "closed"
         THEN [nt EXCEPT ![<<self, o.key>>].state = "dialing"]
         ELSE nt
    ELSE IF o.via = "dial"
    THEN IF <<self, o.key>> \in DOMAIN nt /\ nt[<<self, o.key>>].state = "open"
         THEN [nt EXCEPT ![<<self, o.key>>].fwd =
                             Append(@, streamMessage(o.data))]
         ELSE nt
    ELSE IF <<o.key, self>> \in DOMAIN nt /\ nt[<<o.key, self>>].state = "open"
         THEN [nt EXCEPT ![<<o.key, self>>].back =
                             Append(@, streamMessage(o.data))]
         ELSE nt

RECURSIVE flush(_, _, _)
flush(nt0, self, out) ==
    eval(nt0, LAMBDA nt :
        IF out = <<>> THEN nt
        ELSE flush(flushOne(nt, self, Head(out)), self, Tail(out)))

isMessageEvent(e) == e.ev = "message"

\* The election state a handler started from.
electionState(s) ==
    [phase |-> s.phase, primaryId |-> s.primaryId,
     timeoutHandle |-> s.timeoutHandle,
     gracePeriodHandle |-> s.gracePeriodHandle]

\* A handler of node self has run to completion from the state of the node
\* to s: its frames go out, its events are recorded.
Step(self, s0, nt, op, arg) ==
    \E s \in {s0} :
        /\ node' = [node EXCEPT ![self] =
                       [s EXCEPT !.out = <<>>, !.events = <<>>, !.ret = FALSE]]
        /\ net' = flush(nt, self, s.out)
        /\ last' = [op |-> op, self |-> self, arg |-> arg, out |-> s.out,
                    events |-> s.events, ret |-> s.ret,
                    pre |-> electionState(node[self])]
        /\ log' = [log EXCEPT ![self] =
                       @ \o SelectSeq(s.events, isMessageEvent)]

-----------------------------------------------------------------------------
(* Actions of every specification *)

StartNode(n) ==
    /\ ~node[n].running
    /\ Step(n, start(n, node[n]), net, "start", Null)
    /\ UNCHANGED <<now, budget>>

Tick ==
    /\ now < MaxNow
    /\ now' = now + 1
    /\ last' = [op |-> "tick", self |-> Null, arg |-> Null, out |-> <<>>,
                events |-> <<>>, ret |-> FALSE, pre |-> Null]
    /\ UNCHANGED <<node, net, log, budget>>

RoundTimeout(n) ==
    /\ node[n].timeoutHandle = "armed"
    /\ Step(n, roundTimeout(n, node[n]), net, "roundTimeout", Null)
    /\ UNCHANGED <<now, budget>>

GraceTimeout(n) ==
    /\ node[n].gracePeriodHandle = "armed"
    /\ Step(n, graceTimeout(n, node[n]), net, "graceTimeout", Null)
    /\ UNCHANGED <<now, budget>>

DiscoveryTimeout(n) ==
    /\ node[n].discoveryTimers > 0
    /\ Step(n, discoveryTimeout(n, node[n]), net, "discoveryTimeout", Null)
    /\ UNCHANGED <<now, budget>>

ReconnectTimeout(n, d) ==
    /\ d \in node[n].reconnectTimers
    /\ Step(n, reconnectTimeout(node[n], d), net, "reconnectTimeout", d)
    /\ UNCHANGED <<now, budget>>

-----------------------------------------------------------------------------
(* One node and its environment: the peers are the environment's, and so  *)
(* are the sidecar's events and the frames that arrive.                   *)

AppEnvelope == [namespace |-> "events", type |-> "x", payload |-> [v |-> 1]]

peerDevice(t, role) ==
    [id |-> t, status |-> "online", role |-> role, dns |-> Null]

Candidacies(t) ==
    {[deviceId |-> t, uptime |-> u, userDesignated |-> b] :
        u \in 0..MaxUptime, b \in BOOLEAN}

\* The control-plane messages peer t can send to node n.
PeerMessages(n, t) ==
    {createMeshMessage("device:announce", t,
                       [device |-> peerDevice(t, "none")]),
     createMeshMessage("device:list", t,
                       [devices |-> {peerDevice(t, "primary")},
                        primaryId |-> t]),
     createMeshMessage("device:goodbye", t, [deviceId |-> t]),
     createMeshMessage("election:start", t, EmptyPayload)}
    \cup {createMeshMessage("election:candidate", t, c) : c \in Candidacies(t)}
    \cup {createMeshMessage("election:result", t,
                            [newPrimaryId |-> p, reason |-> "election"]) :
             p \in {t, n}}

PeerFrames(n, t) ==
    {meshEnvelope(m) : m \in PeerMessages(n, t)}
    \cup {routeMessage(d, AppEnvelope) : d \in DeviceIds \ {t}}
    \cup {routeBroadcast(AppEnvelope), AppEnvelope}

Peers(n) == DeviceIds \ {n}

EnvWsConnect(n, t) ==
    /\ node[n].running
    /\ budget.conn > 0
    /\ IncomingId(t) \notin DOMAIN node[n].connections
    /\ Step(n, handleWsConnect(n, node[n], t), net, "wsConnect", t)
    /\ budget' = [budget EXCEPT !.conn = @ - 1]
    /\ UNCHANGED now

EnvWsDisconnect(n, t) ==
    /\ node[n].running
    /\ IncomingId(t) \in DOMAIN node[n].connections
    /\ Step(n, handleWsDisconnect(node[n], t), net, "wsDisconnect", t)
    /\ UNCHANGED <<now, budget>>

EnvDialConnected(n, t) ==
    /\ node[n].running
    /\ node[n].pendingDials[t] > 0
    /\ Step(n, handleDialConnected(n, node[n], t), net, "dialConnected", t)
    /\ UNCHANGED <<now, budget>>

EnvDialDisconnect(n, t) ==
    /\ node[n].running
    /\ DialId(t) \in DOMAIN node[n].connections
    /\ node[n].connections[DialId(t)].status = "connected"
    /\ Step(n, handleDialDisconnect(node[n], t), net, "dialDisconnect", t)
    /\ UNCHANGED <<now, budget>>

\* A frame arrives on a connected row.
EnvFrame(n, c, t, frame) ==
    /\ node[n].running
    /\ budget.frame > 0
    /\ c \in DOMAIN node[n].connections
    /\ node[n].connections[c].status = "connected"
    /\ Step(n, IF c[1] = "dial"
               THEN handleDialMessage(n, node[n], c[2], frame)
               ELSE handleWsMessage(n, node[n], c[2], frame), net, "data",
            [connectionId |-> c, frame |-> frame])
    /\ budget' = [budget EXCEPT !.frame = @ - 1]
    /\ UNCHANGED now

EnvTailnetPeers(n, peers) ==
    /\ node[n].running
    /\ budget.peers > 0
    /\ Step(n, handleTailnetPeers(n, node[n], peers), net, "tailnetPeers",
            peers)
    /\ budget' = [budget EXCEPT !.peers = @ - 1]
    /\ UNCHANGED now

\* An envelope of the application at node n: its payload names n.
appEnvelope(type, n) ==
    [namespace |-> "events", type |-> type, payload |-> [origin |-> n]]

AppSendEnvelope(n, d) ==
    /\ node[n].running
    /\ budget.app > 0
    /\ Step(n, sendEnvelope(n, node[n], d, appEnvelope("direct", n)), net,
            "sendEnvelope", d)
    /\ budget' = [budget EXCEPT !.app = @ - 1]
    /\ UNCHANGED now

AppBroadcastEnvelope(n) ==
    /\ node[n].running
    /\ budget.app > 0
    /\ Step(n, broadcastEnvelope(n, node[n], appEnvelope("all", n)), net,
            "broadcastEnvelope", Null)
    /\ budget' = [budget EXCEPT !.app = @ - 1]
    /\ UNCHANGED now

NoLinks == [l \in {} |-> ClosedLink]

NoLast ==
    [op |-> "init", self |-> Null, arg |-> Null, out |-> <<>>,
     events |-> <<>>, ret |-> FALSE, pre |-> Null]

InitNode ==
    /\ node \in [{DevB} -> {NodeInit(b) : b \in BOOLEAN}]
    /\ net = NoLinks
    /\ now = 0
    /\ last = NoLast
    /\ log = [n \in {DevB} |-> <<>>]
    /\ budget = [conn |-> MaxConn, frame |-> MaxEnv, app |-> MaxApp,
                 peers |-> 1]

NextNode ==
    \/ StartNode(DevB)
    \/ Tick
    \/ RoundTimeout(DevB)
    \/ GraceTimeout(DevB)
    \/ \E t \in Peers(DevB) : EnvWsConnect(DevB, t)
    \/ \E t \in Peers(DevB) : EnvWsDisconnect(DevB, t)
    \/ \E t \in Peers(DevB) :
          \E f \in PeerFrames(DevB, t) : EnvFrame(DevB, IncomingId(t), t, f)

SpecNode == InitNode /\ [][NextNode]_vars

-----------------------------------------------------------------------------
(* The same node, with the control-plane traffic of its peers only, under *)
(* the scheduling of its timers: an armed timer of a running event loop   *)
(* fires.                                                                 *)

FailoverMessages(t) ==
    {createMeshMessage("device:announce", t,
                       [device |-> peerDevice(t, "none")]),
     createMeshMessage("device:list", t,
                       [devices |-> {peerDevice(t, "primary")},
                        primaryId |-> t]),
     createMeshMessage("device:goodbye", t, [deviceId |-> t]),
     createMeshMessage("election:start", t, EmptyPayload),
     createMeshMessage("election:candidate", t,
                       [deviceId |-> t, uptime |-> MaxUptime,
                        userDesignated |-> FALSE]),
     createMeshMessage("election:result", t,
                       [newPrimaryId |-> t, reason |-> "election"])}

InitFailover ==
    /\ node = [n \in {DevB} |-> NodeInit(FALSE)]
    /\ net = NoLinks
    /\ now = 0
    /\ last = NoLast
    /\ log = [n \in {DevB} |-> <<>>]
    /\ budget = [conn |-> MaxConn, frame |-> MaxEnv, app |-> 0, peers |-> 0]

NextFailover ==
    \/ StartNode(DevB)
    \/ RoundTimeout(DevB)
    \/ GraceTimeout(DevB)
    \/ \E t \in Peers(DevB) : EnvWsConnect(DevB, t)
    \/ \E t \in Peers(DevB) : EnvWsDisconnect(DevB, t)
    \/ \E t \in Peers(DevB) :
          \E m \in FailoverMessages(t) :
             EnvFrame(DevB, IncomingId(t), t, meshEnvelope(m))

SpecFailover ==
    /\ InitFailover
    /\ [][NextFailover]_vars
    /\ WF_vars(RoundTimeout(DevB))
    /\ WF_vars(GraceTimeout(DevB))

-----------------------------------------------------------------------------
(* A closed network: every node is the program; the sidecars and the      *)
(* tailnet between them are the streams of net, one per dial.             *)

Nodes == DOMAIN node

\* What the sidecar of n reports of the tailnet: the other devices, online
\* when they run.
tailnetPeers(n) ==
    {[id |-> m, online |-> node[m].running, dns |-> Null] : m \in Nodes \ {n}}

TailnetPeers(n) ==
    /\ node[n].running
    /\ budget.peers > 0
    /\ Step(n, handleTailnetPeers(n, node[n], tailnetPeers(n)), net,
            "tailnetPeers", tailnetPeers(n))
    /\ budget' = [budget EXCEPT !.peers = @ - 1]
    /\ UNCHANGED now

\* The dial of a is answered by b: the dialer's sidecar reports
\* dial:connected, the acceptor's sidecar will report the new connection.
LinkUp(a, b) ==
    /\ <<a, b>> \in DOMAIN net
    /\ net[<<a, b>>].state = "dialing"
    /\ node[a].running
    /\ node[b].running
    /\ Step(a, handleDialConnected(a, node[a], b),
            [net EXCEPT ![<<a, b>>].state = "open",
                        ![<<a, b>>].fwd = <<wsConnectEvent>>],
            "dialConnected", b)
    /\ UNCHANGED <<now, budget>>

\* The acceptor b handles the next event of the stream dialed by a.
DeliverFwd(a, b) ==
    /\ <<a, b>> \in DOMAIN net
    /\ net[<<a, b>>].fwd # <<>>
    /\ LET e == Head(net[<<a, b>>].fwd)
           nt == [net EXCEPT ![<<a, b>>].fwd = Tail(@)]
       IN  IF e.ev = "connect"
           THEN Step(b, handleWsConnect(b, node[b], a), nt, "wsConnect", a)
           ELSE Step(b, handleWsMessage(b, node[b], a, e.data),
                     nt, "data",
                     [connectionId |-> IncomingId(a), frame |-> e.data])
    /\ UNCHANGED <<now, budget>>

\* The dialer a handles the next frame b sent on the stream a dialed.
DeliverBack(a, b) ==
    /\ <<a, b>> \in DOMAIN net
    /\ net[<<a, b>>].back # <<>>
    /\ LET e == Head(net[<<a, b>>].back)
           nt == [net EXCEPT ![<<a, b>>].back = Tail(@)]
       IN  Step(a, handleDialMessage(a, node[a], b, e.data), nt,
                "data", [connectionId |-> DialId(b), frame |-> e.data])
    /\ UNCHANGED <<now, budget>>

hasPendingConnect(l) ==
    \E i \in 1..Len(net[l].fwd) : net[l].fwd[i].ev = "connect"

\* Every dial has been answered, every node has taken up the connections
\* made to it, and every two nodes have a stream between them.
MeshUp ==
    /\ \A n \in Nodes : node[n].running
    /\ \A l \in DOMAIN net :
          net[l].state # "dialing" /\ ~hasPendingConnect(l)
    /\ \A n \in Nodes : \A m \in Nodes \ {n} :
          \E l \in {<<n, m>>, <<m, n>>} \cap DOMAIN net : net[l].state = "open"

-----------------------------------------------------------------------------
(* Two nodes that find each other and elect: a round starts only when the *)
(* connections are up, so that every election message a node broadcasts   *)
(* reaches the other node.                                                *)

ElectionNodes == {DevA, DevB}

noFrameInFlight == \A l \in DOMAIN net : net[l].fwd = <<>> /\ net[l].back = <<>>

\* The discovery timeout is longer than the connections and the greetings
\* on them take.
ElectionDiscoveryTimeout(n) ==
    /\ MeshUp
    /\ noFrameInFlight
    /\ DiscoveryTimeout(n)

InitElection ==
    /\ node = [n \in ElectionNodes |-> NodeInit(FALSE)]
    /\ net = [l \in {<<DevA, DevB>>} |-> ClosedLink]
    /\ now = 0
    /\ last = NoLast
    /\ log = [n \in ElectionNodes |-> <<>>]
    /\ budget = [conn |-> 0, frame |-> 0, app |-> 0, peers |-> MaxReports]

NextElection ==
    \/ Tick
    \/ \E n \in ElectionNodes : StartNode(n)
    \/ \E n \in ElectionNodes : TailnetPeers(n)
    \/ \E n \in ElectionNodes : ElectionDiscoveryTimeout(n)
    \/ \E n \in ElectionNodes : RoundTimeout(n)
    \/ \E l \in DOMAIN net : LinkUp(l[1], l[2])
    \/ \E l \in DOMAIN net : DeliverFwd(l[1], l[2])
    \/ \E l \in DOMAIN net : DeliverBack(l[1], l[2])

SpecElection == InitElection /\ [][NextElection]_vars

-----------------------------------------------------------------------------
(* Three nodes before any discovery timeout: DevA runs alone and is       *)
(* primary by default, DevB and DevC join it.  DevA and DevB dial each    *)
(* other and DevA dials DevC; the dial of DevB to DevC is not answered.   *)

MeshNodes == {DevA, DevB, DevC}

JoinNode(n) == isPrimary(DevA, node[DevA]) /\ StartNode(n)

\* The application calls when the greetings have been handled.
MeshSendEnvelope(n, d) == noFrameInFlight /\ AppSendEnvelope(n, d)

MeshBroadcastEnvelope(n) == noFrameInFlight /\ AppBroadcastEnvelope(n)

InitMesh ==
    /\ node = [n \in MeshNodes |-> NodeInit(FALSE)]
    /\ net = [l \in {<<DevB, DevA>>, <<DevA, DevB>>, <<DevA, DevC>>} |->
                 ClosedLink]
    /\ now = 0
    /\ last = NoLast
    /\ log = [n \in MeshNodes |-> <<>>]
    /\ budget = [conn |-> 0, frame |-> 0, app |-> MaxApp,
                 peers |-> MaxMeshReports]

NextMesh ==
    \/ StartNode(DevA)
    \/ \E n \in {DevB, DevC} : JoinNode(n)
    \/ \E n \in {DevA, DevB} : TailnetPeers(n)
    \/ \E l \in DOMAIN net : LinkUp(l[1], l[2])
    \/ \E l \in DOMAIN net : DeliverFwd(l[1], l[2])
    \/ \E l \in DOMAIN net : DeliverBack(l[1], l[2])
    \/ \E d \in MeshNodes : MeshSendEnvelope(DevB, d)
    \/ \E n \in {DevA, DevB} : MeshBroadcastEnvelope(n)

SpecMesh == InitMesh /\ [][NextMesh]_vars

-----------------------------------------------------------------------------
(* One transport under its owner's calls, its timers and the events of   *)
(* its sidecar.                                                         *)

StopNode(n) ==
    /\ node[n].running
    /\ Step(n, stop(n, node[n]), net, "stop", Null)
    /\ UNCHANGED <<now, budget>>

\* transport.connect(d, ...) called by the owner of the transport.
Connect(n, d) ==
    /\ node[n].running
    /\ budget.app > 0
    /\ Step(n, connect(node[n], d), net, "connect", d)
    /\ budget' = [budget EXCEPT !.app = @ - 1]
    /\ UNCHANGED now

CloseConnection(n, c) ==
    /\ node[n].running
    /\ budget.app > 0
    /\ c \in DOMAIN node[n].connections
    /\ Step(n, closeConnection(node[n], c), net, "closeConnection", c)
    /\ budget' = [budget EXCEPT !.app = @ - 1]
    /\ UNCHANGED now

EnvDialError(n, t) ==
    /\ node[n].running
    /\ node[n].pendingDials[t] > 0
    /\ Step(n, dialError(node[n], t), net, "dialError", t)
    /\ UNCHANGED <<now, budget>>

\* The timer of a pending connect() call outlives a stop.
ConnectTimeout(n, t, isReconnect) ==
    /\ IF isReconnect
       THEN node[n].pendingReconnects[t] > 0
       ELSE node[n].pendingDials[t] > node[n].pendingReconnects[t]
    /\ Step(n, connectTimeout(node[n], t, isReconnect), net, "connectTimeout",
            [deviceId |-> t, isReconnect |-> isReconnect])
    /\ UNCHANGED <<now, budget>>

\* The interval of a connected row.
HeartbeatTick(n, c) ==
    /\ sendRawOk(node[n], c)
    /\ Step(n, heartbeatTick(node[n], c), net, "heartbeatTick", c)
    /\ UNCHANGED <<now, budget>>

\* The frames peer t sends: the sentinels of its transport, envelopes of
\* its application and its announce, before and after it has a role.
TransportFrames(t) ==
    {[type |-> "ping", timestamp |-> 0],
     [type |-> "pong", timestamp |-> 0],
     appEnvelope("ping", t),
     appEnvelope("update", t)}
    \cup {meshEnvelope(createMeshMessage("device:announce", t,
                                         [device |-> peerDevice(t, r)])) :
             r \in {"none", "secondary"}}

InitTransport ==
    /\ node = [n \in {DevB} |-> NodeInit(FALSE)]
    /\ net = NoLinks
    /\ now = 0
    /\ last = NoLast
    /\ log = [n \in {DevB} |-> <<>>]
    /\ budget = [conn |-> 1, frame |-> MaxFrames, app |-> MaxCalls,
                 peers |-> 0]

NextTransport ==
    \/ StartNode(DevB)
    \/ StopNode(DevB)
    \/ Tick
    \/ \E t \in {DevA} : Connect(DevB, t)
    \/ \E t \in {DevA} : CloseConnection(DevB, DialId(t))
    \/ \E t \in {DevA} : EnvDialConnected(DevB, t)
    \/ \E t \in {DevA} : EnvDialError(DevB, t)
    \/ \E t \in {DevA} : \E r \in BOOLEAN : ConnectTimeout(DevB, t, r)
    \/ \E t \in {DevA} : EnvDialDisconnect(DevB, t)
    \/ \E t \in {DevA} : ReconnectTimeout(DevB, t)
    \/ \E t \in {DevA} : EnvWsConnect(DevB, t)
    \/ \E t \in {DevA} : EnvWsDisconnect(DevB, t)
    \/ \E t \in {DevA} :
          \E c \in {DialId(t), IncomingId(t)} : HeartbeatTick(DevB, c)
    \/ \E t \in {DevA} :
          \E c \in {DialId(t), IncomingId(t)} :
             \E f \in TransportFrames(t) : EnvFrame(DevB, c, t, f)

SpecTransport == InitTransport /\ [][NextTransport]_vars

-----------------------------------------------------------------------------
(* Properties of one node *)

LexLess(a, b) ==
    \E k \in 0..Len(a) :
        /\ k <= Len(b)
        /\ \A i \in 1..k : a[i] = b[i]
        /\ \/ k = Len(a) /\ k < Len(b)
           \/ k < Len(a) /\ k < Len(b) /\ a[k + 1] < b[k + 1]

\* a is ranked before b: user-designated first, then the longer uptime, then
\* the lexicographically smaller device id.
Outranks(a, b) ==
    \/ a.userDesignated /\ ~b.userDesignated
    \/ a.userDesignated = b.userDesignated /\ a.uptime > b.uptime
    \/ /\ a.userDesignated = b.userDesignated
       /\ a.uptime = b.uptime
       /\ LexLess(a.deviceId, b.deviceId)

permuted(cs, p) == [i \in 1..Len(cs) |-> cs[p[i]]]

isDataOf(l, type) ==
    /\ l.op = "data"
    /\ l.arg.frame.namespace = "mesh"
    /\ l.arg.frame.type = "message"
    /\ l.arg.frame.payload.type = type

broadcastTypes(events) ==
    LET bs == SelectSeq(events, LAMBDA e : e.ev = "broadcast")
    IN  [i \in 1..Len(bs) |-> bs[i].type]

ResultIsAdopted ==
    isDataOf(last, "election:result") =>
        LET s == node[last.self]
            p == last.arg.frame.payload.payload.newPrimaryId
            elected == SelectSeq(last.events,
                                 LAMBDA e : e.ev = "primaryElected")
        IN  /\ s.primaryId = p
            /\ s.phase = "decided"
            /\ s.candidates = <<>>
            /\ s.timeoutHandle # "armed"
            /\ s.gracePeriodHandle # "armed"
            /\ Len(elected) = 1
            /\ elected[1].deviceId = p
            /\ elected[1].isLocal = (p = last.self)

\* A result received during the grace period that follows the loss of the
\* primary.
ResultIsAdoptedWitness ==
    /\ isDataOf(last, "election:result")
    /\ last.pre.phase = "waiting"
    /\ last.pre.gracePeriodHandle = "armed"
    /\ node[DevB].phase = "decided"

isRouteFrame(l) ==
    /\ l.op = "data"
    /\ l.arg.frame.namespace = "mesh"
    /\ l.arg.frame.type \in {"route:message", "route:broadcast"}

\* C10: a node that is not primary and receives mesh/route:message or
\* mesh/route:broadcast sends nothing, surfaces no message event (the only
\* event is the transport's own 'data'), and keeps its device table,
\* election state and connections as they were: of the whole state only the
\* activity time of the receiving row, the transport's heartbeat
\* bookkeeping, is refreshed.
UnauthorizedRouteIsDropped ==
    [][(isRouteFrame(last') /\ ~isPrimary(last'.self, node[last'.self])) =>
          /\ last'.out = <<>>
          /\ \A i \in DOMAIN last'.events : last'.events[i].ev = "data"
          /\ node' = [node EXCEPT ![last'.self] =
                         updateActivity(@, last'.arg.connectionId)]
          /\ log' = log]_vars

\* A route:broadcast dropped by a node that is not primary and has a
\* connection bound to another device, over which it could have forwarded.
UnauthorizedRouteIsDroppedWitness ==
    /\ isRouteFrame(last)
    /\ last.arg.frame.type = "route:broadcast"
    /\ ~isPrimary(DevB, node[DevB])
    /\ \E c \in DOMAIN node[DevB].connections :
          /\ c # last.arg.connectionId
          /\ node[DevB].connections[c].deviceId # Null
          /\ node[DevB].connections[c].status = "connected"
    /\ last.out = <<>>

inGrace(s) ==
    /\ s.config
    /\ s.phase = "waiting"
    /\ s.primaryId = Null
    /\ s.gracePeriodHandle = "armed"

hasEvent(events, ev) == \E i \in 1..Len(events) : events[i].ev = ev

\* C4: handlePrimaryLost leaves primaryId null, the phase waiting and the
\* grace timer armed; from then on, as long as no frame arrives and the grace
\* timer has not fired, primaryId stays null, the phase stays waiting and no
\* election:start is broadcast; and when the grace timer fires the node
\* enters collecting and broadcasts election:start, then its own
\* election:candidate.
GracePeriodIsQuiet ==
    [][LET n == last'.self
       IN  /\ (last'.op # "tick" /\ hasEvent(last'.events, "primaryLost")) =>
                 inGrace(node'[n])
           /\ (last'.op \notin {"tick", "data", "graceTimeout"}
                 /\ inGrace(node[n])) =>
                 /\ node'[n].phase = "waiting"
                 /\ node'[n].primaryId = Null
                 /\ broadcastTypes(last'.events) = <<>>
           /\ (last'.op = "graceTimeout" /\ inGrace(node[n])) =>
                 /\ node'[n].phase = "collecting"
                 /\ broadcastTypes(last'.events) =
                       <<"election:start", "election:candidate">>]_vars

primaryWentOffline ==
    /\ last.op \in {"data", "wsDisconnect"}
    /\ last.pre.primaryId # Null
    /\ last.pre.primaryId # last.self
    /\ \/ isDataOf(last, "device:goodbye")
             /\ last.arg.frame.payload.from = last.pre.primaryId
       \/ last.op = "wsDisconnect" /\ last.arg = last.pre.primaryId

hasPrimary(s) == s.phase = "decided" /\ s.primaryId # Null

\* C3: when the remote device a running node has adopted as its primary
\* goes offline (its device:goodbye arrives, or its connection is lost), the
\* node eventually is in phase decided with a primary; while it is waiting
\* the grace timer is pending and while it is collecting the round timer is
\* pending, so it is never left without a primary and without a timer.
FailoverCompletes ==
    /\ \A n \in {DevB} :
          (primaryWentOffline /\ last.self = n) ~> hasPrimary(node[n])
    /\ [](\A n \in {DevB} :
            /\ node[n].phase = "waiting" =>
                  node[n].gracePeriodHandle = "armed"
            /\ node[n].phase = "collecting" =>
                  node[n].timeoutHandle = "armed")

\* The primary's connection is lost and the node is waiting out the grace
\* period.
FailoverCompletesWitness ==
    /\ primaryWentOffline
    /\ last.op = "wsDisconnect"
    /\ inGrace(node[DevB])

-----------------------------------------------------------------------------
(* Properties of the election between two nodes *)

noTimerPending(s) ==
    /\ s.timeoutHandle # "armed"
    /\ s.gracePeriodHandle # "armed"
    /\ s.discoveryTimers = 0

\* Every frame sent has been handled, no node is collecting or waiting, and
\* no timer is left to fire.
electionQuiescent ==
    /\ noFrameInFlight
    /\ \A n \in Nodes :
          /\ node[n].phase \notin {"collecting", "waiting"}
          /\ node[n].primaryId # Null
          /\ noTimerPending(node[n])

\* C1: in a network whose nodes are all connected before the first round
\* starts, once every frame is delivered, no node is collecting and no timer
\* is pending, all nodes have the same primaryId and exactly one node is
\* primary.
ElectionAgreement ==
    (MeshUp /\ electionQuiescent) =>
        /\ \A n, m \in Nodes : node[n].primaryId = node[m].primaryId
        /\ Cardinality({n \in Nodes : isPrimary(n, node[n])}) = 1

isDeviceListOf(o, n) ==
    /\ o.via # "cmd"
    /\ o.data.namespace = "mesh"
    /\ o.data.type = "message"
    /\ o.data.payload.type = "device:list"
    /\ o.data.payload.from = n
    /\ o.data.payload.payload.primaryId = n

\* The connection just made at the node of l is to device d, and the node
\* sent its device:list on it.
sentListOnConnect(l, d) ==
    \E i \in 1..Len(l.out) :
        /\ isDeviceListOf(l.out[i], l.self)
        /\ l.out[i].key = d
        /\ l.out[i].via = IF l.op = "wsConnect" THEN "ws" ELSE "dial"

\* The device:list of a primary, arriving at a node that knows no primary
\* and is in no round.
isSeeding(l) ==
    /\ isDataOf(l, "device:list")
    /\ l.arg.frame.payload.payload.primaryId = l.arg.frame.payload.from
    /\ l.pre.primaryId = Null
    /\ l.pre.phase = "idle"
    /\ l.pre.timeoutHandle # "armed"

\* C6: a primary that gets a connection sends its device:list on it; a node
\* that knows no primary and is in no round, on handling that list, has the
\* sender as primaryId of its election and of its device table and the
\* local role secondary, and has started no round; and its discovery
\* timeout, firing afterwards, starts none either.
LateJoinerIsSeeded ==
    [][/\ (last'.op \in {"wsConnect", "dialConnected"}
             /\ isPrimary(last'.self, node[last'.self])) =>
             sentListOnConnect(last', last'.arg)
       /\ isSeeding(last') =>
             LET s == node'[last'.self]
                 p == last'.arg.frame.payload.from
             IN  /\ s.primaryId = p
                 /\ s.dmPrimaryId = p
                 /\ s.localRole = "secondary"
                 /\ s.phase = "idle"
                 /\ s.timeoutHandle # "armed"
                 /\ broadcastTypes(last'.events) = <<>>
       /\ (last'.op = "discoveryTimeout"
             /\ node[last'.self].primaryId # Null) =>
             /\ node'[last'.self].phase = node[last'.self].phase
             /\ node'[last'.self].primaryId = node[last'.self].primaryId
             /\ broadcastTypes(last'.events) = <<>>
             /\ last'.out = <<>>]_vars

\* A joiner whose discovery timer is pending has taken the list of the
\* primary that accepted its dial.
LateJoinerIsSeededWitness ==
    /\ isSeeding(last)
    /\ node[last.self].discoveryTimers > 0
    /\ node[last.self].primaryId = last.arg.frame.payload.from
    /\ node[last.self].localRole = "secondary"
    /\ isPrimary(last.arg.frame.payload.from,
                 node[last.arg.frame.payload.from])

-----------------------------------------------------------------------------
(* Properties of the envelope API in a mesh of three nodes *)

\* The row a frame of a handler's output is written to.
rowOf(o) == IF o.via = "dial" THEN DialId(o.key) ELSE IncomingId(o.key)

isBoundTo(s, d) ==
    \E c \in DOMAIN s.connections : s.connections[c].deviceId = d

\* The output is the one frame data, on a row bound to device d.
isSentTo(s, out, d, data) ==
    /\ Len(out) = 1
    /\ out[1].via # "cmd"
    /\ out[1].data = data
    /\ rowOf(out[1]) \in DOMAIN s.connections
    /\ s.connections[rowOf(out[1])].deviceId = d

hasConnectedRowTo(s, d) ==
    \E c \in DOMAIN s.connections :
        s.connections[c].deviceId = d /\ s.connections[c].status = "connected"

\* C7: sendEnvelope(target, env) surfaces env locally and returns true when
\* the target is the local id; else sends env on a connection bound to the
\* target when there is one; else, on a node that is not primary and knows a
\* primary, sends route:message(target, env) to the primary; and in every
\* other case sends nothing and returns false.  A row bound to the target
\* that is not connected may count as a connection or not: with such a row
\* either of the two sends is accepted.
SendEnvelopeRouting ==
    [][last'.op = "sendEnvelope" =>
          LET n == last'.self
              s == node[n]
              d == last'.arg
              env == appEnvelope("direct", n)
          IN  IF d = n
              THEN /\ last'.ret
                   /\ last'.out = <<>>
                   /\ last'.events = <<messageEvent(n, LocalId, env)>>
              ELSE IF hasConnectedRowTo(s, d)
              THEN isSentTo(s, last'.out, d, env)
              ELSE IF ~isPrimary(n, s) /\ s.primaryId # Null
              THEN \/ isSentTo(s, last'.out, s.primaryId,
                               routeMessage(d, env))
                   \/ isBoundTo(s, d) /\ isSentTo(s, last'.out, d, env)
              ELSE last'.out = <<>> /\ ~last'.ret]_vars

\* The frames of a handler's output that carry data to device d; in the
\* closed network a stream is keyed by the device at its other end.
copiesTo(out, d, data) ==
    Cardinality({i \in 1..Len(out) :
                    out[i].via # "cmd" /\ out[i].key = d /\ out[i].data = data})

surfacings(events, env) ==
    Cardinality({i \in 1..Len(events) :
                    /\ events[i].ev = "message"
                    /\ events[i].type = env.type
                    /\ events[i].payload = env.payload})

\* The primary n, in state s, has served one broadcast of env by origin.
isFannedOutOnce(s, n, l, origin, env) ==
    /\ \A d \in DeviceIds \ {origin, n} :
          hasConnectedRowTo(s, d) => copiesTo(l.out, d, env) = 1
    /\ origin # n => copiesTo(l.out, origin, env) = 0
    /\ surfacings(l.events, env) = 1

\* C8: when the primary serves a broadcast, its own or one routed to it by
\* a secondary, every other device with a connected bound connection at the
\* primary is sent the envelope exactly once, the origin is sent no copy,
\* and the primary surfaces the envelope exactly once.
BroadcastDeliversOnce ==
    [][/\ (last'.op = "broadcastEnvelope"
             /\ isPrimary(last'.self, node[last'.self])) =>
             isFannedOutOnce(node[last'.self], last'.self, last', last'.self,
                             appEnvelope("all", last'.self))
       /\ (last'.op = "data"
             /\ last'.arg.frame.namespace = "mesh"
             /\ last'.arg.frame.type = "route:broadcast"
             /\ isPrimary(last'.self, node[last'.self])) =>
             isFannedOutOnce(node[last'.self], last'.self, last',
                 connDeviceId(node[last'.self], last'.arg.connectionId),
                 last'.arg.frame.payload.envelope)]_vars

\* C9: a broadcast of secondary DevB that the primary forwards is surfaced
\* at the third device DevC with from = DevB.
RoutedBroadcastKeepsOrigin ==
    \A i \in 1..Len(log[DevC]) :
        (log[DevC][i].type = "all" /\ log[DevC][i].payload.origin = DevB) =>
            log[DevC][i].from = DevB

-----------------------------------------------------------------------------
(* Reconnection of the transport *)

\* 1000, 2000, 4000, ... ms, capped at maxReconnectDelayMs.
backoffOf(n) ==
    CASE n = 1 -> 1000
      [] n = 2 -> 2000
      [] n = 3 -> 4000
      [] n = 4 -> 8000
      [] n = 5 -> 16000
      [] OTHER -> 30000

isRegistered(s, d) == d \in s.reconnects

\* C11: every reconnect the transport schedules for a device registered by
\* connect() waits min(1000 * 2^(n-1), maxReconnectDelayMs) ms, n being the
\* attempt counter of the device, one more than before the scheduling; and
\* while the device stays registered its counter goes down only when
\* dialConnected succeeds, or when the owner of the transport calls
\* connect() again.
ReconnectBackoff ==
    [][LET n == last'.self
       IN  last'.op # "tick" =>
           /\ \A i \in 1..Len(last'.events) :
                 LET e == last'.events[i]
                 IN  e.ev = "reconnecting" =>
                        /\ e.attempt >= 1
                        /\ e.delayMs = backoffOf(e.attempt)
           /\ \A d \in DeviceIds :
                 (/\ isRegistered(node[n], d)
                  /\ isRegistered(node'[n], d)
                  /\ node'[n].attempt[d] < node[n].attempt[d]) =>
                     last'.op \in {"dialConnected", "connect"}]_vars

\* The handler that just ran emitted disconnected(connectionId, reason) with
\* a reason other than service_stopped.
hasDisconnected(events, connectionId) ==
    \E i \in 1..Len(events) :
        /\ events[i].ev = "disconnected"
        /\ events[i].connectionId = connectionId
        /\ events[i].reason # "service_stopped"

\* C12: while the transport runs, whenever disconnected is emitted with a
\* reason other than service_stopped for the connected outgoing connection
\* of a device registered by connect(), a reconnect is scheduled for that
\* device in the same handler: its timer is armed when the handler returns.
ReconnectOnDisconnect ==
    [][LET n == last'.self
       IN  last'.op # "tick" =>
           \A d \in DeviceIds :
              (/\ node[n].running
               /\ node'[n].running
               /\ isRegistered(node[n], d)
               /\ sendRawOk(node[n], DialId(d))
               /\ hasDisconnected(last'.events, DialId(d))) =>
                  d \in node'[n].reconnectTimers]_vars

\* The step rejected a connect() call that was pending for device d.
rejectsConnect(d) ==
    /\ last'.op \in {"dialError", "connectTimeout"}
    /\ node[last'.self].pendingDials[d] > node'[last'.self].pendingDials[d]

\* C13: when a pending connect(d) rejects, on dialError or on its 10 s
\* timeout, while the transport runs, the placeholder row dial:d and the
\* index entry of d are gone when the handler returns, and if d is
\* registered for auto-reconnect a reconnect is scheduled for it, whether
\* the call was made by the owner or by a reconnect timer.
FailedDialIsRetried ==
    [][LET n == last'.self
       IN  last'.op # "tick" =>
           \A d \in DeviceIds :
              (node[n].running /\ rejectsConnect(d)) =>
                  /\ DialId(d) \notin DOMAIN node'[n].connections
                  /\ node'[n].deviceToConnection[d] = Null
                  /\ isRegistered(node[n], d) =>
                         d \in node'[n].reconnectTimers]_vars

\* The connection an earlier connect(d) established is in the table,
\* connected and bound to d.
hasConnectedDialTo(s, d) ==
    /\ sendRawOk(s, DialId(d))
    /\ s.connections[DialId(d)].deviceId = d

\* C14: connect(d) called while the connected connection that an earlier
\* connect(d) established is still in the table returns that connection,
\* issues no dial, and leaves the connection table, the index and the
\* reconnect ledger as they were.
ConnectIsIdempotent ==
    [][LET n == last'.self
       IN  (/\ last'.op = "connect"
            /\ hasConnectedDialTo(node[n], last'.arg)) =>
               /\ last'.ret
               /\ last'.out = <<>>
               /\ node'[n].connections = node[n].connections
               /\ node'[n].deviceToConnection = node[n].deviceToConnection
               /\ node'[n].reconnects = node[n].reconnects
               /\ node'[n].attempt = node[n].attempt
               /\ node'[n].reconnectTimers = node[n].reconnectTimers]_vars

isDialCommand(o) == o.via = "cmd" /\ o.data = "dial"

issuesDial(out) == \E i \in 1..Len(out) : isDialCommand(out[i])

-----------------------------------------------------------------------------
(* Heartbeat of the transport *)

isFrame(o) == o.via # "cmd"

\* The pings among the frames a handler sent.
pingsIn(out) ==
    SelectSeq(out, LAMBDA o : isFrame(o) /\ o.data.type = "ping"
                                 /\ "namespace" \notin DOMAIN o.data)

hasHeartbeatTimeout(events, connectionId) ==
    \E i \in 1..Len(events) :
        events[i] = disconnected(connectionId, "heartbeat_timeout")

\* C16: a heartbeat tick of a connected connection whose last activity is
\* more than heartbeatTimeoutMs old removes the connection and emits
\* disconnected(id, 'heartbeat_timeout') without sending a ping; any other
\* tick sends one ping on the connection and leaves it in the table; and a
\* frame received on a connection, sentinel or not, sets its last-activity
\* time to the time of receipt.
HeartbeatKeepsOrCloses ==
    [][LET n == last'.self
       IN  /\ last'.op = "heartbeatTick" =>
                LET c == last'.arg
                IN  IF now - node[n].connections[c].lastActivityTime
                           > heartbeatTimeoutMs
                    THEN /\ c \notin DOMAIN node'[n].connections
                         /\ hasHeartbeatTimeout(last'.events, c)
                         /\ pingsIn(last'.out) = <<>>
                    ELSE /\ Len(pingsIn(last'.out)) = 1
                         /\ node'[n].connections = node[n].connections
                         /\ ~hasHeartbeatTimeout(last'.events, c)
           /\ last'.op = "data" =>
                LET c == last'.arg.connectionId
                IN  /\ c \in DOMAIN node'[n].connections
                    /\ node'[n].connections[c].lastActivityTime = now]_vars

\* A tick has closed a connection that was silent for too long.
HeartbeatKeepsOrClosesWitness ==
    /\ last.op = "heartbeatTick"
    /\ hasHeartbeatTimeout(last.events, last.arg)

\* The data events among the events of a handler that carry the frame.
dataEvents(events, connectionId, frame) ==
    SelectSeq(events, LAMBDA e : e = [ev |-> "data",
                                      connectionId |-> connectionId,
                                      data |-> frame])

\* C17: a received frame that carries a namespace, an envelope of an
\* application or of the mesh, is surfaced as exactly one data event
\* whatever its type, ping and pong included; a frame without a namespace
\* whose type is ping or pong, a heartbeat sentinel, is never surfaced.
OnlySentinelsAreIntercepted ==
    [][last'.op = "data" =>
          LET frame == last'.arg.frame
              surfaced == dataEvents(last'.events, last'.arg.connectionId, frame)
          IN  IF "namespace" \in DOMAIN frame
              THEN Len(surfaced) = 1
              ELSE Len(surfaced) = 0]_vars

-----------------------------------------------------------------------------
(* The device table of one node: announces, device lists, goodbyes and    *)
(* election results of a peer, the sidecar's peer listings, and the loss  *)
(* of the connection.                                                     *)

MaxListings == 2        \* peer listings one node receives

\* The MagicDNS name of device t.
dnsName(t) == <<"dns", t>>

remoteDevice(t, status, dns) ==
    [id |-> t, status |-> status, role |-> "none", dns |-> dns]

\* The device lists peer t can send: of itself, online or offline, with or
\* without a third device, naming itself or the third device as primary.
DeviceLists(t) ==
    {[devices |-> ds, primaryId |-> p] :
        ds \in {{},
                {remoteDevice(t, "online", Null)},
                {remoteDevice(t, "offline", Null)},
                {remoteDevice(t, "online", Null),
                 remoteDevice(DevC, "online", Null)}},
        p \in {t, DevC}}

DeviceMessages(t) ==
    {createMeshMessage("device:announce", t,
                       [device |-> remoteDevice(t, st, d)]) :
        st \in {"online", "offline"}, d \in {Null, dnsName(t)}}
    \cup {createMeshMessage("device:list", t, l) : l \in DeviceLists(t)}
    \cup {createMeshMessage("device:goodbye", t, [deviceId |-> t]),
          createMeshMessage("election:result", t,
                            [newPrimaryId |-> t, reason |-> "election"])}

DeviceFrames(t) == {meshEnvelope(m) : m \in DeviceMessages(t)}

\* What the sidecar can report of peer t.
Listings(t) ==
    {{[id |-> t, online |-> o, dns |-> d]} :
        o \in BOOLEAN, d \in {Null, dnsName(t)}}

InitDevices ==
    /\ node = [n \in {DevB} |-> NodeInit(FALSE)]
    /\ net = NoLinks
    /\ now = 0
    /\ last = NoLast
    /\ log = [n \in {DevB} |-> <<>>]
    /\ budget = [conn |-> 1, frame |-> MaxFrames, app |-> 0,
                 peers |-> MaxListings]

NextDevices ==
    \/ StartNode(DevB)
    \/ RoundTimeout(DevB)
    \/ GraceTimeout(DevB)
    \/ DiscoveryTimeout(DevB)
    \/ \E t \in {DevA} :
          \/ EnvWsConnect(DevB, t)
          \/ EnvWsDisconnect(DevB, t)
          \/ \E f \in DeviceFrames(t) : EnvFrame(DevB, IncomingId(t), t, f)
          \/ \E peers \in Listings(t) : EnvTailnetPeers(DevB, peers)

SpecDevices == InitDevices /\ [][NextDevices]_vars

-----------------------------------------------------------------------------
(* The device table *)

\* C18: in every reachable state the primary of the device table, when
\* set, is the local device or a device of the remote table.
PrimaryIdIsValid ==
    \A n \in Nodes :
        node[n].dmPrimaryId # Null =>
            \/ node[n].dmPrimaryId = n
            \/ node[n].dmPrimaryId \in DOMAIN node[n].devices

firesPrimaryChanged(events, primaryId) ==
    \E i \in DOMAIN events :
        /\ events[i].ev = "primaryChanged"
        /\ events[i].primaryId = primaryId

\* The handler that ran received a device list naming d as the primary.
listNames(l, d) ==
    /\ l.op = "data"
    /\ l.arg.frame.namespace = "mesh"
    /\ l.arg.frame.type = "message"
    /\ l.arg.frame.payload.type = "device:list"
    /\ l.arg.frame.payload.payload.primaryId = d

\* C19: when the remote device that is the primary of the device table
\* goes from not offline to offline in the table, by whatever handler (and
\* not by a device list that names it primary again), the primary of the
\* table is unset and primaryChanged(null) fires.
PrimaryClearedOnOffline ==
    [][\A n \in Nodes :
          LET d == node[n].dmPrimaryId
          IN  (/\ d # Null
               /\ d # n
               /\ d \in DOMAIN node[n].devices
               /\ node[n].devices[d].status # "offline"
               /\ d \in DOMAIN node'[n].devices
               /\ node'[n].devices[d].status = "offline"
               /\ ~listNames(last', d))
              => /\ node'[n].dmPrimaryId = Null
                 /\ firesPrimaryChanged(last'.events, Null)]_vars

isMeshMessage(l, type) ==
    /\ l.op = "data"
    /\ l.arg.frame.namespace = "mesh"
    /\ l.arg.frame.type = "message"
    /\ l.arg.frame.payload.type = type

\* The handler that ran received device d without a DNS name: in a peer
\* listing, in an announce or in a device list.
listingWithoutDns(l, d) ==
    /\ l.op = "tailnetPeers"
    /\ \E p \in l.arg : p.id = d /\ p.dns = Null

announceWithoutDns(l, d) ==
    /\ isMeshMessage(l, "device:announce")
    /\ l.arg.frame.payload.payload.device.id = d
    /\ l.arg.frame.payload.payload.device.dns = Null

listWithoutDns(l, d) ==
    /\ isMeshMessage(l, "device:list")
    /\ \E dev \in l.arg.frame.payload.payload.devices :
          dev.id = d /\ dev.dns = Null

\* C20: a remote device that has a DNS name in the table keeps it when a
\* peer listing, an announce or a device list for the same device arrives
\* with an empty or missing DNS name.
DnsNameIsPreserved ==
    [][\A n \in Nodes : \A d \in DOMAIN node[n].devices :
          (/\ node[n].devices[d].dns # Null
           /\ last'.self = n
           /\ \/ listingWithoutDns(last', d)
              \/ announceWithoutDns(last', d)
              \/ listWithoutDns(last', d))
          => /\ d \in DOMAIN node'[n].devices
             /\ node'[n].devices[d].dns = node[n].devices[d].dns]_vars

\* The device list the handler that ran received, Null when it received
\* something else.
listOf(l) ==
    IF isMeshMessage(l, "device:list") THEN l.arg.frame.payload ELSE Null

\* C21: a device list applied a second time, right after the same list from
\* the same sender, leaves the device table, every role and the primary as
\* they were and emits no primaryChanged event.
DeviceListIsIdempotent ==
    [][\A n \in Nodes :
          (/\ listOf(last) # Null
           /\ last.self = n
           /\ last'.self = n
           /\ listOf(last') = listOf(last))
          => /\ node'[n].devices = node[n].devices
             /\ node'[n].localRole = node[n].localRole
             /\ node'[n].dmPrimaryId = node[n].dmPrimaryId
             /\ ~hasEvent(last'.events, "primaryChanged")]_vars

-----------------------------------------------------------------------------
(* MeshMessageBus: the subscription registry and the dispatch.  A handler *)
(* is <<kind, k>>; the Set of a namespace is a sequence without           *)
(* duplicates, in insertion order, and has an identity of its own: a      *)
(* disposer keeps the Set it was created for.                             *)

MaxSubscribes == 3      \* subscribe calls on one bus
MaxDispatches == 2      \* messages one bus dispatches

NoSets == [k \in {} |-> <<>>]
NoHandlers == [ns \in {} |-> 0]

seqHas(seq, x) == \E i \in DOMAIN seq : seq[i] = x
seqDelete(seq, x) == SelectSeq(seq, LAMBDA y : y # x)
setAdd(seq, x) == IF seqHas(seq, x) THEN seq ELSE Append(seq, x)

mapDelete(f, k) == [x \in DOMAIN f \ {k} |-> f[x]]
mapSet(f, k, v) == [x \in DOMAIN f \cup {k} |-> IF x = k THEN v ELSE f[x]]

\* subscribe(namespace, handler); the disposer is the value returned.
subscribe(s0, namespace, handler) ==
    eval(s0, LAMBDA s :
        LET isNew == namespace \notin DOMAIN s.handlers
            k == IF isNew THEN s.nextSet ELSE s.handlers[namespace]
            s1 == IF isNew
                  THEN emit([s EXCEPT !.sets = mapSet(@, k, <<>>),
                                      !.handlers = mapSet(@, namespace, k),
                                      !.nextSet = @ + 1],
                            [ev |-> "subscribed", namespace |-> namespace])
                  ELSE s
        IN  [s1 EXCEPT !.sets[k] = setAdd(@, handler),
                       !.ret = [namespace |-> namespace, handler |-> handler,
                                set |-> k]])

\* The closure subscribe returned.
unsubscribe(s0, disposer) ==
    eval(s0, LAMBDA s :
        LET s1 == [s EXCEPT !.sets[disposer.set] =
                                seqDelete(@, disposer.handler)]
        IN  IF Len(s1.sets[disposer.set]) = 0
            THEN emit([s1 EXCEPT !.handlers =
                                    mapDelete(@, disposer.namespace)],
                      [ev |-> "unsubscribed",
                       namespace |-> disposer.namespace])
            ELSE s1)

\* this.emit('error', e, namespace) of an EventEmitter: without a listener
\* for 'error' the emitter throws the error itself.
emitError(s, namespace) ==
    IF s.errorListeners = 0
    THEN [s EXCEPT !.thrown = TRUE]
    ELSE emit(s, [ev |-> "error", namespace |-> namespace])

\* broadcast(namespace, type, payload): the envelope handed to the node.
busBroadcast(s, type, payload) ==
    [s EXCEPT !.out = Append(@, [namespace |-> "sync", type |-> type,
                                 payload |-> payload])]

-----------------------------------------------------------------------------
(* StoreSyncAdapter.  The stores are the application's: what they are     *)
(* asked to do is recorded as events, their 'localChanged' listeners are  *)
(* the emitter's list.  A slice is its deviceId and version; data and     *)
(* updatedAt are copied along with them and left out.                     *)

StoreIds == {"tasks", "settings"}

RECURSIVE broadcastStoreFullOver(_, _, _)
\* broadcastStoreFull for every store of ids; a store without a local slice
\* (version 0) is skipped.
broadcastStoreFullOver(self, s0, ids) ==
    eval(s0, LAMBDA s :
        IF ids = {} THEN s
        ELSE LET storeId == CHOOSE x \in ids : TRUE
                 s1 == IF s.localSlice[storeId] = 0 THEN s
                       ELSE busBroadcast(s, "store:sync:full",
                                [storeId |-> storeId, deviceId |-> self,
                                 version |-> s.localSlice[storeId]])
             IN  broadcastStoreFullOver(self, s1, ids \ {storeId}))

broadcastAllStores(self, s) == broadcastStoreFullOver(self, s, StoreIds)

RECURSIVE requestSyncOver(_, _)
requestSyncOver(s0, ids) ==
    eval(s0, LAMBDA s :
        IF ids = {} THEN s
        ELSE LET storeId == CHOOSE x \in ids : TRUE
             IN  requestSyncOver(
                     busBroadcast(s, "store:sync:request",
                                  [storeId |-> storeId, fromDeviceId |-> Null]),
                     ids \ {storeId}))

requestSyncFromDevices(s) == requestSyncOver(s, StoreIds)

RECURSIVE setupStoreListenersOver(_, _)
\* store.on('localChanged', listener); storeListeners.set(storeId, cleanup)
setupStoreListenersOver(s0, ids) ==
    eval(s0, LAMBDA s :
        IF ids = {} THEN s
        ELSE LET storeId == CHOOSE x \in ids : TRUE
                 listener == s.nextListener
             IN  setupStoreListenersOver(
                     [s EXCEPT !.emitters[storeId] = Append(@, listener),
                               !.storeListeners = mapSet(@, storeId, listener),
                               !.nextListener = @ + 1],
                     ids \ {storeId}))

setupStoreListeners(s) == setupStoreListenersOver(s, StoreIds)

\* Every cleanup of the map runs store.off of its own listener.
removeStoreListeners(s) ==
    [s EXCEPT !.emitters = [storeId \in StoreIds |->
                  IF storeId \in DOMAIN s.storeListeners
                  THEN seqDelete(@[storeId], s.storeListeners[storeId])
                  ELSE @[storeId]],
              !.storeListeners = NoHandlers]

adapterStart(self, s0) ==
    eval(s0, LAMBDA s :
        IF s.disposed THEN s
        ELSE LET handler == <<"sync", s.nextBound>>
                 s1 == subscribe([s EXCEPT !.nextBound = @ + 1], "sync",
                                 handler)
                 s2 == [s1 EXCEPT !.unsubscribeMessages = {s1.ret},
                                  !.ret = FALSE]
             IN  broadcastAllStores(self,
                     requestSyncFromDevices(setupStoreListeners(s2))))

RECURSIVE clearStores(_, _)
clearStores(s0, ids) ==
    eval(s0, LAMBDA s :
        IF ids = {} THEN s
        ELSE LET storeId == CHOOSE x \in ids : TRUE
             IN  clearStores(emit(s, [ev |-> "clearRemoteSlices",
                                      storeId |-> storeId]),
                             ids \ {storeId}))

adapterStop(s0) ==
    eval(s0, LAMBDA s :
        LET s1 == removeStoreListeners(s)
            s2 == IF s1.unsubscribeMessages = {} THEN s1
                  ELSE [unsubscribe(s1, CHOOSE d \in s1.unsubscribeMessages :
                                            TRUE)
                           EXCEPT !.unsubscribeMessages = {}]
        IN  clearStores(s2, StoreIds))

adapterDispose(s0) ==
    eval(s0, LAMBDA s :
        IF s.disposed THEN s
        ELSE adapterStop([s EXCEPT !.disposed = TRUE]))

RECURSIVE removeRemoteSliceOver(_, _, _, _)
removeRemoteSliceOver(s0, ids, deviceId, reason) ==
    eval(s0, LAMBDA s :
        IF ids = {} THEN s
        ELSE LET storeId == CHOOSE x \in ids : TRUE
             IN  removeRemoteSliceOver(
                     emit(s, [ev |-> "removeRemoteSlice", storeId |-> storeId,
                              deviceId |-> deviceId, reason |-> reason]),
                     ids \ {storeId}, deviceId, reason))

RECURSIVE broadcastClearOver(_, _, _)
broadcastClearOver(s0, ids, deviceId) ==
    eval(s0, LAMBDA s :
        IF ids = {} THEN s
        ELSE LET storeId == CHOOSE x \in ids : TRUE
             IN  broadcastClearOver(
                     busBroadcast(s, "store:sync:clear",
                                  [storeId |-> storeId, deviceId |-> deviceId,
                                   reason |-> "offline"]),
                     ids \ {storeId}, deviceId))

handleDeviceOffline(s, deviceId) ==
    broadcastClearOver(removeRemoteSliceOver(s, StoreIds, deviceId, "offline"),
                       StoreIds, deviceId)

RECURSIVE requestFromOver(_, _, _)
requestFromOver(s0, ids, deviceId) ==
    eval(s0, LAMBDA s :
        IF ids = {} THEN s
        ELSE LET storeId == CHOOSE x \in ids : TRUE
             IN  requestFromOver(
                     busBroadcast(s, "store:sync:request",
                                  [storeId |-> storeId,
                                   fromDeviceId |-> deviceId]),
                     ids \ {storeId}, deviceId))

handleDeviceDiscovered(self, s, deviceId) ==
    requestFromOver(broadcastAllStores(self, s), StoreIds, deviceId)

\* handleSyncFull and handleSyncUpdate: the slice is handed to the store.
handleSyncFull(self, s, from, payload) ==
    IF from = Null \/ from = self THEN s
    ELSE emit(s, [ev |-> "applyRemoteSlice", storeId |-> payload.storeId,
                  slice |-> [deviceId |-> payload.deviceId,
                             version |-> payload.version]])

handleSyncRequest(self, s, from, payload) ==
    IF from = Null \/ from = self THEN s
    ELSE IF payload.fromDeviceId # Null /\ payload.fromDeviceId # self THEN s
    ELSE broadcastStoreFullOver(self, s, {payload.storeId})

handleSyncClear(self, s, payload) ==
    IF payload.deviceId = self THEN s
    ELSE emit(s, [ev |-> "removeRemoteSlice", storeId |-> payload.storeId,
                  deviceId |-> payload.deviceId, reason |-> payload.reason])

handleSyncMessage(self, s0, message) ==
    eval(s0, LAMBDA s :
        IF message.payload.storeId \notin StoreIds THEN s
        ELSE CASE message.type \in {"store:sync:full", "store:sync:update"} ->
                    handleSyncFull(self, s, message.from, message.payload)
               [] message.type = "store:sync:request" ->
                    handleSyncRequest(self, s, message.from, message.payload)
               [] message.type = "store:sync:clear" ->
                    handleSyncClear(self, s, message.payload)
               [] OTHER -> s)

\* The listener of one store: handleLocalChanged.
handleLocalChanged(s, storeId, slice) ==
    busBroadcast(s, "store:sync:update",
                 [storeId |-> storeId, deviceId |-> slice.deviceId,
                  version |-> slice.version])

-----------------------------------------------------------------------------
(* MeshMessageBus: dispatch *)

\* What a handler of the application does when it is called: it returns,
\* it throws, or it subscribes or unsubscribes the handler <<"app", k>> of
\* the namespace of the message and returns.
disposersOf(s, namespace, handler) ==
    {d \in s.held : d.namespace = namespace /\ d.handler = handler}

\* One handler of the namespace is called inside try/catch.
invokeHandler(self, s0, handler, message) ==
    eval(s0, LAMBDA s :
        IF handler[1] = "sync" THEN handleSyncMessage(self, s, message)
        ELSE LET s1 == emit(s, [ev |-> "handled", handler |-> handler])
                 other == <<"app", handler[2]>>
                 ds == disposersOf(s1, message.namespace, other)
             IN  CASE handler[1] = "throwing" ->
                        emitError(s1, message.namespace)
                   [] handler[1] = "subscribing" ->
                        LET s2 == subscribe(s1, message.namespace, other)
                        IN  [s2 EXCEPT !.held = @ \cup {s2.ret}]
                   [] handler[1] = "unsubscribing" /\ ds # {} ->
                        unsubscribe(s1, CHOOSE d \in ds : TRUE)
                   [] OTHER -> s1)

\* An entry of a Set that was deleted while the Set is iterated.
Deleted == <<"deleted", 0>>

\* The entries a Set iterator walks, after the Set has become current: an
\* entry deleted keeps its place, empty, and an entry added is appended.
liveEntries(entries, current) ==
    [i \in DOMAIN entries |->
        IF seqHas(current, entries[i]) THEN entries[i] ELSE Deleted]
    \o SelectSeq(current, LAMBDA h : ~seqHas(entries, h))

RECURSIVE dispatchOver(_, _, _, _, _, _)
\* for (const handler of handlers): the iteration of the Set k, which the
\* handlers called may change meanwhile.
dispatchOver(self, s0, k, entries, pos, message) ==
    eval(s0, LAMBDA s :
        IF pos > Len(entries) \/ s.thrown THEN s
        ELSE IF entries[pos] = Deleted
        THEN dispatchOver(self, s, k, entries, pos + 1, message)
        ELSE LET s1 == invokeHandler(self, s, entries[pos], message)
             IN  dispatchOver(self, s1, k, liveEntries(entries, s1.sets[k]),
                              pos + 1, message))

dispatchMessage(self, s0, message) ==
    eval(s0, LAMBDA s :
        IF message.namespace \notin DOMAIN s.handlers THEN s
        ELSE LET k == s.handlers[message.namespace]
             IN  dispatchOver(self, s, k, s.sets[k], 1, message))

-----------------------------------------------------------------------------
(* A bus, the adapter on it and the stores, after construction *)

AppInit ==
    [handlers |-> NoHandlers, sets |-> NoSets, nextSet |-> 1,
     errorListeners |-> 0, thrown |-> FALSE, held |-> {},
     disposed |-> FALSE, unsubscribeMessages |-> {}, lifecycle |-> "new",
     storeListeners |-> NoHandlers, nextBound |-> 1, nextListener |-> 1,
     emitters |-> [storeId \in StoreIds |-> <<>>],
     localSlice |-> [storeId \in StoreIds |-> 0],
     out |-> <<>>, events |-> <<>>, ret |-> FALSE]

\* held and lifecycle are the application's: the disposers it was handed
\* and the lifecycle call of the adapter it made last.
\* The namespaces and their handler sets.
registry(s) == [ns \in DOMAIN s.handlers |-> s.sets[s.handlers[ns]]]

isApply(e) == e.ev = "applyRemoteSlice"

\* A call has run to completion from the state of the bus and the adapter
\* to s; the slices handed to the stores are kept in log.
AppStep(self, s0, op, arg) ==
    \E s \in {s0} :
        /\ node' = [node EXCEPT ![self] =
                       [s EXCEPT !.out = <<>>, !.events = <<>>, !.ret = FALSE,
                                 !.thrown = FALSE]]
        /\ last' = [op |-> op, self |-> self, arg |-> arg, out |-> s.out,
                    events |-> s.events, ret |-> s.ret,
                    pre |-> registry(node[self]), thrown |-> s.thrown]
        /\ log' = [log EXCEPT ![self] = @ \o SelectSeq(s.events, isApply)]
        /\ UNCHANGED <<net, now>>

-----------------------------------------------------------------------------
(* The bus and its application: subscriptions of handlers that return or  *)
(* throw, disposers called at any later time, messages of the node.       *)

Namespaces == {"chat", "files"}
AppHandlers == {<<"app", 1>>, <<"app", 2>>, <<"throwing", 1>>}

Subscribe(n, ns, h) ==
    /\ budget.conn > 0
    /\ \E s \in {subscribe(node[n], ns, h)} :
          AppStep(n, [s EXCEPT !.held = @ \cup {s.ret}], "subscribe",
                  [namespace |-> ns, handler |-> h])
    /\ budget' = [budget EXCEPT !.conn = @ - 1]

Unsubscribe(n, d) ==
    /\ budget.app > 0
    /\ AppStep(n, unsubscribe(node[n], d), "unsubscribe", d)
    /\ budget' = [budget EXCEPT !.app = @ - 1]

\* bus.on('error', listener)
OnError(n) ==
    /\ node[n].errorListeners = 0
    /\ AppStep(n, [node[n] EXCEPT !.errorListeners = 1], "onError", Null)
    /\ UNCHANGED budget

\* The node emits 'message': dispatchMessage runs.
Dispatch(n, message) ==
    /\ budget.frame > 0
    /\ AppStep(n, dispatchMessage(n, node[n], message), "dispatch", message)
    /\ budget' = [budget EXCEPT !.frame = @ - 1]

BusMessages(t) ==
    {[from |-> t, namespace |-> ns, type |-> "x", payload |-> [v |-> 1]] :
        ns \in Namespaces}

InitBus ==
    /\ node = [n \in {DevB} |-> AppInit]
    /\ net = NoLinks
    /\ now = 0
    /\ last = NoLast
    /\ log = [n \in {DevB} |-> <<>>]
    /\ budget = [conn |-> MaxSubscribes, frame |-> MaxDispatches,
                 app |-> MaxSubscribes, peers |-> 0]

NextBus ==
    \/ \E ns \in Namespaces : \E h \in AppHandlers : Subscribe(DevB, ns, h)
    \/ \E d \in node[DevB].held : Unsubscribe(DevB, d)
    \/ OnError(DevB)
    \/ \E m \in BusMessages(DevA) : Dispatch(DevB, m)

SpecBus == InitBus /\ [][NextBus]_vars

-----------------------------------------------------------------------------
(* The message bus *)

timesHandled(events, h) ==
    Len(SelectSeq(events, LAMBDA e : e = [ev |-> "handled", handler |-> h]))

\* The handlers of the namespace of message m, in the order of the bus.
handlersOf(s, m) ==
    IF m.namespace \in DOMAIN s.handlers
    THEN s.sets[s.handlers[m.namespace]] ELSE <<>>

\* C25: a dispatch calls every handler of the namespace exactly once, also
\* when one of them throws; no exception leaves the dispatch, with or
\* without a listener for 'error'; where there is such a listener it is
\* told of the error with the namespace.
BusHandlerIsolation ==
    [][last'.op = "dispatch" =>
          LET s == node[last'.self]
              hs == handlersOf(s, last'.arg)
          IN  /\ \A i \in DOMAIN hs : timesHandled(last'.events, hs[i]) = 1
              /\ ~last'.thrown
              /\ (s.errorListeners > 0
                    /\ \E i \in DOMAIN hs : hs[i][1] = "throwing")
                 => seqHas(last'.events,
                           [ev |-> "error",
                            namespace |-> last'.arg.namespace])]_vars

\* The handler sets of a registry, without their order.
handlerSets(r) == [ns \in DOMAIN r |-> {r[ns][i] : i \in DOMAIN r[ns]}]

\* C26: subscribe(ns, fn) followed at once by the disposer it returned
\* leaves the namespaces of the registry and their handler sets as they
\* were before the subscribe, also when fn was subscribed to ns already.
SubscribeDisposeRoundTrip ==
    [][(/\ last.op = "subscribe"
        /\ last'.op = "unsubscribe"
        /\ last'.self = last.self
        /\ last'.arg = last.ret)
       => handlerSets(registry(node'[last.self])) = handlerSets(last.pre)]_vars

-----------------------------------------------------------------------------
(* The adapter, its bus and its stores: lifecycle calls in any order,     *)
(* device events, local changes of the stores and sync messages of a      *)
(* peer, repeated and in any order.                                       *)

MaxLifecycle == 3       \* start, stop and dispose calls on one adapter
MaxVersion == 2         \* versions of a slice

AdapterStart(n) ==
    /\ budget.conn > 0
    /\ AppStep(n, [adapterStart(n, node[n]) EXCEPT !.lifecycle = "started"],
               "start", Null)
    /\ budget' = [budget EXCEPT !.conn = @ - 1]

AdapterStop(n) ==
    /\ budget.conn > 0
    /\ AppStep(n, [adapterStop(node[n]) EXCEPT !.lifecycle = "stopped"],
               "stop", Null)
    /\ budget' = [budget EXCEPT !.conn = @ - 1]

AdapterDispose(n) ==
    /\ budget.conn > 0
    /\ AppStep(n, [adapterDispose(node[n]) EXCEPT !.lifecycle = "stopped"],
               "dispose", Null)
    /\ budget' = [budget EXCEPT !.conn = @ - 1]

DeviceOffline(n, d) ==
    /\ budget.app > 0
    /\ AppStep(n, handleDeviceOffline(node[n], d), "handleDeviceOffline", d)
    /\ budget' = [budget EXCEPT !.app = @ - 1]

DeviceDiscovered(n, d) ==
    /\ budget.app > 0
    /\ AppStep(n, handleDeviceDiscovered(n, node[n], d),
               "handleDeviceDiscovered", d)
    /\ budget' = [budget EXCEPT !.app = @ - 1]

RECURSIVE notifyListeners(_, _, _, _)
\* store.emit('localChanged', slice): every listener of the store runs.
notifyListeners(s0, listeners, storeId, slice) ==
    eval(s0, LAMBDA s :
        IF listeners = <<>> THEN s
        ELSE notifyListeners(handleLocalChanged(s, storeId, slice),
                             Tail(listeners), storeId, slice))

\* A store changes its local slice and emits 'localChanged'.
LocalChanged(n, storeId) ==
    /\ budget.app > 0
    /\ node[n].localSlice[storeId] < MaxVersion
    /\ LET s == [node[n] EXCEPT !.localSlice[storeId] = @ + 1]
       IN  AppStep(n, notifyListeners(s, s.emitters[storeId], storeId,
                                      [deviceId |-> n,
                                       version |-> s.localSlice[storeId]]),
                   "localChanged", storeId)
    /\ budget' = [budget EXCEPT !.app = @ - 1]

\* The sync messages peer t sends, and those that must be dropped: of an
\* unknown store, from the node itself, without a sender.
SyncMessages(n, t) ==
    {[from |-> f, namespace |-> "sync", type |-> type,
      payload |-> [storeId |-> storeId, deviceId |-> t, version |-> v]] :
        f \in {t, n, Null},
        type \in {"store:sync:full", "store:sync:update"},
        storeId \in {"tasks", "other"}, v \in 1..MaxVersion}
    \cup {[from |-> t, namespace |-> "sync", type |-> "store:sync:request",
           payload |-> [storeId |-> "tasks", fromDeviceId |-> d]] :
             d \in {Null, n, DevC}}
    \cup {[from |-> t, namespace |-> "sync", type |-> "store:sync:clear",
           payload |-> [storeId |-> "tasks", deviceId |-> d,
                        reason |-> "offline"]] : d \in {t, n}}

InitSync ==
    /\ node \in {[n \in {DevB} |-> [AppInit EXCEPT !.localSlice = ls]] :
                    ls \in [StoreIds -> {0, 1}]}
    /\ net = NoLinks
    /\ now = 0
    /\ last = NoLast
    /\ log = [n \in {DevB} |-> <<>>]
    /\ budget = [conn |-> MaxLifecycle, frame |-> MaxDispatches,
                 app |-> MaxCalls, peers |-> 0]

NextSync ==
    \/ AdapterStart(DevB)
    \/ AdapterStop(DevB)
    \/ AdapterDispose(DevB)
    \/ \E d \in {DevA} : DeviceOffline(DevB, d)
    \/ \E d \in {DevA} : DeviceDiscovered(DevB, d)
    \/ \E storeId \in StoreIds : LocalChanged(DevB, storeId)
    \/ \E m \in SyncMessages(DevB, DevA) : Dispatch(DevB, m)

SpecSync == InitSync /\ [][NextSync]_vars

-----------------------------------------------------------------------------
(* The store sync adapter *)

\* C22: for every store and device, the versions of the slices the adapter
\* hands to applyRemoteSlice are strictly increasing, whatever messages
\* arrive, repeated or out of order.
AppliedVersionsIncrease ==
    \A n \in Nodes : \A i, j \in DOMAIN log[n] :
        (/\ i < j
         /\ log[n][i].storeId = log[n][j].storeId
         /\ log[n][i].slice.deviceId = log[n][j].slice.deviceId)
        => log[n][i].slice.version < log[n][j].slice.version

\* A call on a store that changes its remote slices.
mutatesStore(events) ==
    \E i \in DOMAIN events :
        events[i].ev \in {"applyRemoteSlice", "removeRemoteSlice",
                          "clearRemoteSlices"}

\* C23: once stop() was the last lifecycle call, whatever start and stop
\* calls came before it, a localChanged event of a store broadcasts nothing
\* and an incoming sync message reaches no applyRemoteSlice and no
\* removeRemoteSlice.
SilentAfterStop ==
    [][\A n \in Nodes :
          (/\ node[n].lifecycle = "stopped"
           /\ last'.self = n
           /\ last'.op \in {"localChanged", "dispatch"})
          => /\ last'.out = <<>>
             /\ ~mutatesStore(last'.events)]_vars

\* C24: on a disposed adapter no call and no event of a store or of the bus
\* subscribes to the bus, broadcasts or changes a store.
DisposedAdapterIsInert ==
    [][\A n \in Nodes :
          (node[n].disposed /\ last'.self = n)
          => /\ last'.out = <<>>
             /\ ~mutatesStore(last'.events)
             /\ ~hasEvent(last'.events, "subscribed")
             /\ node'[n].nextBound = node[n].nextBound]_vars

-----------------------------------------------------------------------------
(* The node of the device table, started and stopped by its owner at any *)
(* moment.                                                               *)

InitLifecycle == InitDevices

NextLifecycle ==
    \/ NextDevices
    \/ StopNode(DevB)

SpecLifecycle == InitLifecycle /\ [][NextLifecycle]_vars

\* The timers of node state s that are armed.
armedTimers(s) ==
    {k \in {"round", "grace", "discovery", "reconnect"} :
        \/ k = "round" /\ s.timeoutHandle = "armed"
        \/ k = "grace" /\ s.gracePeriodHandle = "armed"
        \/ k = "discovery" /\ s.discoveryTimers > 0
        \/ k = "reconnect" /\ s.reconnectTimers # {}}

\* C27: when stop() has returned the node is not running and none of its
\* timers is armed, and until it is started again the node starts no
\* election, sends nothing and dials nobody.
StopLeavesNothingPending ==
    [][\A n \in Nodes :
          /\ (last'.op = "stop" /\ last'.self = n)
                => ~node'[n].running /\ armedTimers(node'[n]) = {}
          /\ (~node[n].running /\ last'.self = n /\ last'.op # "start")
                => /\ last'.out = <<>>
                   /\ node'[n].phase = node[n].phase
                   /\ node'[n].connections = node[n].connections]_vars

-----------------------------------------------------------------------------
(* Election timers *)

\* The primary the message that handler l received names, Null if it names
\* none.
namedPrimary(l) ==
    IF isMeshMessage(l, "device:list")
    THEN l.arg.frame.payload.payload.primaryId
    ELSE IF isMeshMessage(l, "election:result")
    THEN l.arg.frame.payload.payload.newPrimaryId
    ELSE Null

\* C30: when a node has adopted the primary an election:result or a
\* device:list names, neither its election-round timer nor its grace timer
\* is armed any more.
AdoptionCancelsTimers ==
    [][\A n \in Nodes :
          (/\ last'.self = n
           /\ namedPrimary(last') # Null
           /\ node'[n].primaryId = namedPrimary(last'))
          => /\ node'[n].timeoutHandle # "armed"
             /\ node'[n].gracePeriodHandle # "armed"]_vars

-----------------------------------------------------------------------------
(* FrameCodec: values and the two serialization formats                   *)
(*                                                                        *)
(* A byte is a number in 0..255 and a buffer a sequence of bytes.  A      *)
(* string is the sequence of its UTF-8 bytes.  A JavaScript value is a    *)
(* pair of a tag and a content: a string, a number, null, or an object,   *)
(* the sequence of its <<key, value>> properties in insertion order.      *)
(* The serializers are those of @msgpack/msgpack and of JSON for these    *)
(* values: fixmap, fixstr, positive fixint and nil; objects, strings      *)
(* without escapes, non-negative integers and null.                       *)

HEADER_SIZE == 5
FLAG_COMPRESSED == 1
FLAG_FORMAT_MSGPACK == 0
FLAG_FORMAT_JSON == 2
MAX_MESSAGE_SIZE == 16777216     \* 16 * 1024 * 1024

Str(chars) == <<"str", chars>>
Num(n) == <<"num", n>>
NullValue == <<"null", 0>>
Obj(properties) == <<"obj", properties>>

isString(v) == v[1] = "str"
isObject(v) == v[1] = "obj"

hasProperty(v, key) == \E i \in DOMAIN v[2] : v[2][i][1] = key
property(v, key) ==
    v[2][CHOOSE i \in DOMAIN v[2] : v[2][i][1] = key][2]

\* "namespace", "type", "payload", "timestamp"
KeyNamespace == <<110, 97, 109, 101, 115, 112, 97, 99, 101>>
KeyType == <<116, 121, 112, 101>>
KeyPayload == <<112, 97, 121, 108, 111, 97, 100>>
KeyTimestamp == <<116, 105, 109, 101, 115, 116, 97, 109, 112>>

RECURSIVE msgpackEncode(_)
RECURSIVE msgpackEncodeProperties(_)
\* encode(value) of @msgpack/msgpack
msgpackEncode(v) ==
    CASE v[1] = "null" -> <<192>>
      [] v[1] = "num" -> <<v[2]>>
      [] v[1] = "str" -> <<160 + Len(v[2])>> \o v[2]
      [] v[1] = "obj" -> <<128 + Len(v[2])>> \o msgpackEncodeProperties(v[2])

msgpackEncodeProperties(properties) ==
    IF properties = <<>> THEN <<>>
    ELSE msgpackEncode(Str(Head(properties)[1]))
         \o msgpackEncode(Head(properties)[2])
         \o msgpackEncodeProperties(Tail(properties))

\* The result of reading a value at a position of a buffer: the value and
\* the position after it, or a failure.
Parsed(v, next) == [ok |-> TRUE, value |-> v, next |-> next]
NotParsed == [ok |-> FALSE, value |-> NullValue, next |-> 0]

RECURSIVE msgpackRead(_, _)
RECURSIVE msgpackReadProperties(_, _, _, _)
msgpackRead(bytes, pos) ==
    IF pos > Len(bytes) THEN NotParsed
    ELSE LET b == bytes[pos]
         IN  IF b < 128 THEN Parsed(Num(b), pos + 1)
             ELSE IF b < 144
             THEN msgpackReadProperties(bytes, pos + 1, b - 128, <<>>)
             ELSE IF b >= 160 /\ b < 192
             THEN IF pos + (b - 160) > Len(bytes) THEN NotParsed
                  ELSE Parsed(Str(SubSeq(bytes, pos + 1, pos + (b - 160))),
                              pos + 1 + (b - 160))
             ELSE IF b = 192 THEN Parsed(NullValue, pos + 1)
             ELSE NotParsed

msgpackReadProperties(bytes, pos, n, acc) ==
    IF n = 0 THEN Parsed(Obj(acc), pos)
    ELSE LET key == msgpackRead(bytes, pos)
         IN  IF ~key.ok \/ ~isString(key.value) THEN NotParsed
             ELSE LET val == msgpackRead(bytes, key.next)
                  IN  IF ~val.ok THEN NotParsed
                      ELSE msgpackReadProperties(
                               bytes, val.next, n - 1,
                               Append(acc, <<key.value[2], val.value>>))

\* decode(buffer) of @msgpack/msgpack: one value and nothing after it.
msgpackDecode(bytes) ==
    LET r == msgpackRead(bytes, 1)
    IN  IF r.ok /\ r.next = Len(bytes) + 1 THEN r ELSE NotParsed

RECURSIVE jsonStringify(_)
RECURSIVE jsonStringifyProperties(_)
\* Buffer.from(JSON.stringify(value), 'utf-8')
jsonStringify(v) ==
    CASE v[1] = "null" -> <<110, 117, 108, 108>>
      [] v[1] = "num" -> <<48 + v[2]>>
      [] v[1] = "str" -> <<34>> \o v[2] \o <<34>>
      [] v[1] = "obj" -> <<123>> \o jsonStringifyProperties(v[2]) \o <<125>>

jsonStringifyProperties(properties) ==
    IF properties = <<>> THEN <<>>
    ELSE jsonStringify(Str(Head(properties)[1])) \o <<58>>
         \o jsonStringify(Head(properties)[2])
         \o (IF Tail(properties) = <<>> THEN <<>> ELSE <<44>>)
         \o jsonStringifyProperties(Tail(properties))

byteAt(bytes, pos) == IF pos <= Len(bytes) THEN bytes[pos] ELSE 256

RECURSIVE closingQuote(_, _)
\* The position of the next '"' from pos on, 0 if there is none.
closingQuote(bytes, pos) ==
    IF pos > Len(bytes) THEN 0
    ELSE IF bytes[pos] = 34 THEN pos
    ELSE closingQuote(bytes, pos + 1)

RECURSIVE jsonRead(_, _)
RECURSIVE jsonReadProperties(_, _, _)
jsonRead(bytes, pos) ==
    LET b == byteAt(bytes, pos)
    IN  IF b = 123
        THEN IF byteAt(bytes, pos + 1) = 125 THEN Parsed(Obj(<<>>), pos + 2)
             ELSE jsonReadProperties(bytes, pos + 1, <<>>)
        ELSE IF b = 34
        THEN LET q == closingQuote(bytes, pos + 1)
             IN  IF q = 0 THEN NotParsed
                 ELSE Parsed(Str(SubSeq(bytes, pos + 1, q - 1)), q + 1)
        ELSE IF b >= 48 /\ b <= 57 THEN Parsed(Num(b - 48), pos + 1)
        ELSE IF /\ pos + 3 <= Len(bytes)
                /\ SubSeq(bytes, pos, pos + 3) = <<110, 117, 108, 108>>
        THEN Parsed(NullValue, pos + 4)
        ELSE NotParsed

jsonReadProperties(bytes, pos, acc) ==
    LET key == jsonRead(bytes, pos)
    IN  IF ~key.ok \/ ~isString(key.value) \/ byteAt(bytes, key.next) # 58
        THEN NotParsed
        ELSE LET val == jsonRead(bytes, key.next + 1)
                 properties == Append(acc, <<key.value[2], val.value>>)
             IN  IF ~val.ok THEN NotParsed
                 ELSE IF byteAt(bytes, val.next) = 125
                 THEN Parsed(Obj(properties), val.next + 1)
                 ELSE IF byteAt(bytes, val.next) = 44
                 THEN jsonReadProperties(bytes, val.next + 1, properties)
                 ELSE NotParsed

\* JSON.parse(payload.toString('utf-8'))
jsonParse(bytes) ==
    LET r == jsonRead(bytes, 1)
    IN  IF r.ok /\ r.next = Len(bytes) + 1 THEN r ELSE NotParsed

-----------------------------------------------------------------------------
(* FrameCodec: frames *)

writeUInt32BE(n) ==
    <<(n \div 16777216) % 256, (n \div 65536) % 256, (n \div 256) % 256,
      n % 256>>

readUInt32BE(buffer) ==
    buffer[1] * 16777216 + buffer[2] * 65536 + buffer[3] * 256 + buffer[4]

createFrame(payload, flags) == writeUInt32BE(Len(payload)) \o <<flags>> \o payload

\* The serialization of FrameCodec.encode for a format.
serialize(message, format) ==
    IF format = "msgpack" THEN msgpackEncode(message)
    ELSE jsonStringify(message)

flagsOf(format) ==
    IF format = "msgpack" THEN FLAG_FORMAT_MSGPACK ELSE FLAG_FORMAT_JSON

encode(message, format) ==
    createFrame(serialize(message, format), flagsOf(format))

\* What decodeOne returns or throws.
DecodeResult(message, bytesConsumed) ==
    [status |-> "message", message |-> message,
     bytesConsumed |-> bytesConsumed, error |-> ""]
DecodeNull ==
    [status |-> "null", message |-> NullValue, bytesConsumed |-> 0,
     error |-> ""]
DecodeThrown(error) ==
    [status |-> "thrown", message |-> NullValue, bytesConsumed |-> 0,
     error |-> error]

\* flags & 0x06, the format bits
formatBits(flags) == ((flags \div 2) % 4) * 2

deserialize(payload, format) ==
    IF format \notin {FLAG_FORMAT_MSGPACK, FLAG_FORMAT_JSON}
    THEN DecodeThrown("Unknown format flag")
    ELSE LET parsed == IF format = FLAG_FORMAT_MSGPACK
                       THEN msgpackDecode(payload) ELSE jsonParse(payload)
         IN  IF ~parsed.ok THEN DecodeThrown("parse error")
             ELSE IF \/ ~isObject(parsed.value)
                     \/ ~hasProperty(parsed.value, KeyNamespace)
                     \/ ~isString(property(parsed.value, KeyNamespace))
                     \/ ~hasProperty(parsed.value, KeyType)
                     \/ ~isString(property(parsed.value, KeyType))
             THEN DecodeThrown("Invalid message format")
             ELSE DecodeResult(parsed.value, 0)

\* A faulty decodeOne: a frame that ends the buffer is held back.
decodeOneNeedsMore(buffer) ==
    IF Len(buffer) < HEADER_SIZE THEN DecodeNull
    ELSE LET payloadLength == readUInt32BE(buffer)
             flags == buffer[5]
             totalLength == HEADER_SIZE + payloadLength
         IN  IF payloadLength > MAX_MESSAGE_SIZE
             THEN DecodeThrown("Message too large")
             ELSE IF Len(buffer) <= totalLength THEN DecodeNull
             ELSE IF flags % 2 = FLAG_COMPRESSED
             THEN DecodeThrown("Compressed frames require decodeOneAsync()")
             ELSE LET r == deserialize(
                               SubSeq(buffer, HEADER_SIZE + 1, totalLength),
                               formatBits(flags))
                  IN  IF r.status = "thrown" THEN r
                      ELSE DecodeResult(r.message, totalLength)

decodeOne(buffer) ==
    IF Len(buffer) < HEADER_SIZE THEN DecodeNull
    ELSE LET payloadLength == readUInt32BE(buffer)
             flags == buffer[5]
             totalLength == HEADER_SIZE + payloadLength
         IN  IF payloadLength > MAX_MESSAGE_SIZE
             THEN DecodeThrown("Message too large")
             ELSE IF Len(buffer) < totalLength THEN DecodeNull
             ELSE IF flags % 2 = FLAG_COMPRESSED
             THEN DecodeThrown("Compressed frames require decodeOneAsync()")
             ELSE LET r == deserialize(
                               SubSeq(buffer, HEADER_SIZE + 1, totalLength),
                               formatBits(flags))
                  IN  IF r.status = "thrown" THEN r
                      ELSE DecodeResult(r.message, totalLength)

RECURSIVE decodeAllFrom(_, _, _)
\* The loop of decodeAll; offset counts the bytes consumed so far.
decodeAllFrom(buffer, offset, messages) ==
    IF offset >= Len(buffer)
    THEN [thrown |-> FALSE, error |-> "", messages |-> messages,
          remaining |-> SubSeq(buffer, offset + 1, Len(buffer))]
    ELSE LET result == decodeOne(SubSeq(buffer, offset + 1, Len(buffer)))
         IN  IF result.status = "thrown"
             THEN [thrown |-> TRUE, error |-> result.error,
                   messages |-> <<>>, remaining |-> <<>>]
             ELSE IF result.status = "null"
             THEN [thrown |-> FALSE, error |-> "", messages |-> messages,
                   remaining |-> SubSeq(buffer, offset + 1, Len(buffer))]
             ELSE decodeAllFrom(buffer, offset + result.bytesConsumed,
                                Append(messages, result.message))

decodeAll(buffer) == decodeAllFrom(buffer, 0, <<>>)

-----------------------------------------------------------------------------
(* A sender that encodes envelopes onto a stream, and a receiver that     *)
(* decodes what has arrived of it; single frames of any value.            *)

MaxEncodes == 3         \* frames on the stream
MaxDecodes == 1         \* decode calls of the receiver

Formats == {"msgpack", "json"}

envelope(namespace, type, rest) ==
    Obj(<<<<KeyNamespace, Str(namespace)>>, <<KeyType, Str(type)>>>> \o rest)

\* Well-formed envelopes: {namespace: "a", type: "b"} alone, with payload
\* {v: 1}, with payload "x", and {namespace: "ab", type: "c", payload: null,
\* timestamp: 7}.
Messages ==
    {envelope(<<97>>, <<98>>, <<>>),
     envelope(<<97>>, <<98>>,
              <<<<KeyPayload, Obj(<<<<(<<118>>), Num(1)>>>>)>>>>),
     envelope(<<97>>, <<98>>, <<<<KeyPayload, Str(<<120>>)>>>>),
     envelope(<<97, 98>>, <<99>>,
              <<<<KeyPayload, NullValue>>, <<KeyTimestamp, Num(7)>>>>)}

\* What a namespace or a type can be in a value that is decoded: "a", "",
\* 1, null; {} stands for a missing property.
Names == {{}, {Str(<<97>>)}, {Str(<<>>)}, {Num(1)}, {NullValue}}

withName(key, name) ==
    IF name = {} THEN <<>> ELSE <<<<key, CHOOSE v \in name : TRUE>>>>

\* Objects with any namespace and type, and values that are no objects.
Values ==
    {Obj(withName(KeyNamespace, ns) \o withName(KeyType, ty)
         \o <<<<KeyPayload, Num(1)>>>>) : ns \in Names, ty \in Names}
    \cup {Num(1), NullValue, Str(<<97>>)}

CodecInit == [frames |-> <<>>]

CodecStep(self, s, op, arg, ret) ==
    /\ node' = [node EXCEPT ![self] = s]
    /\ last' = [op |-> op, self |-> self, arg |-> arg, out |-> <<>>,
                events |-> <<>>, ret |-> ret, pre |-> Null]
    /\ UNCHANGED <<net, now, log>>

\* codec.encode(message, format), written to the stream.
EncodeFrame(n, message, format) ==
    /\ budget.frame > 0
    /\ LET frame == encode(message, format)
       IN  CodecStep(n, [node[n] EXCEPT !.frames =
                            Append(@, [message |-> message,
                                       format |-> format, bytes |-> frame])],
                     "encode", [message |-> message, format |-> format],
                     frame)
    /\ budget' = [budget EXCEPT !.frame = @ - 1]

RECURSIVE concat(_)
concat(frames) ==
    IF frames = <<>> THEN <<>>
    ELSE Head(frames).bytes \o concat(Tail(frames))

\* codec.decodeAll(buffer) when all frames of the stream but the last have
\* arrived, and the first k bytes of the last.
DecodeStream(n, k) ==
    /\ budget.app > 0
    /\ node[n].frames # <<>>
    /\ LET frames == node[n].frames
           final == frames[Len(frames)].bytes
           buffer == concat(SubSeq(frames, 1, Len(frames) - 1))
                     \o SubSeq(final, 1, k)
       IN  /\ k < Len(final)
           /\ CodecStep(n, node[n], "decodeAll",
                        [buffer |-> buffer, k |-> k], decodeAll(buffer))
    /\ budget' = [budget EXCEPT !.app = @ - 1]

\* codec.decodeOne(frame) of a frame of value v with the given flags.
DecodeFrame(n, v, flags) ==
    /\ budget.app > 0
    /\ LET format == IF formatBits(flags) = FLAG_FORMAT_JSON
                     THEN "json" ELSE "msgpack"
           buffer == createFrame(serialize(v, format), flags)
       IN  CodecStep(n, node[n], "decodeOne",
                     [value |-> v, flags |-> flags, buffer |-> buffer],
                     decodeOne(buffer))
    /\ budget' = [budget EXCEPT !.app = @ - 1]

MaxFrameLength == 64    \* bytes of the longest frame met

InitCodec ==
    /\ node = [n \in {DevB} |-> CodecInit]
    /\ net = NoLinks
    /\ now = 0
    /\ last = NoLast
    /\ log = [n \in {DevB} |-> <<>>]
    /\ budget = [conn |-> 0, frame |-> MaxEncodes, app |-> MaxDecodes,
                 peers |-> 0]

NextCodec ==
    \/ \E m \in Messages : \E f \in Formats : EncodeFrame(DevB, m, f)
    \/ \E k \in 0..MaxFrameLength : DecodeStream(DevB, k)
    \/ \E v \in Values : \E flags \in {0, 1, 2, 4} : DecodeFrame(DevB, v, flags)

SpecCodec == InitCodec /\ [][NextCodec]_vars

-----------------------------------------------------------------------------
(* The wire codec *)

\* C28: decoding the concatenation of the frames of well-formed envelopes,
\* in any mix of the two formats, followed by a strict prefix of one more
\* frame yields those envelopes in order, consumes the sum of the lengths of
\* their frames and leaves the prefix in remaining.
StreamDecoding ==
    \A n \in Nodes :
        (last.op = "decodeAll" /\ last.self = n)
        => LET frames == node[n].frames
               complete == SubSeq(frames, 1, Len(frames) - 1)
               prefix == SubSeq(frames[Len(frames)].bytes, 1, last.arg.k)
           IN  /\ ~last.ret.thrown
               /\ last.ret.messages =
                     [i \in 1..Len(complete) |-> complete[i].message]
               /\ Len(last.arg.buffer) - Len(last.ret.remaining) =
                     Len(concat(complete))
               /\ last.ret.remaining = prefix

StreamDecodingWitness ==
    \E n \in Nodes :
        /\ last.op = "decodeAll" /\ last.self = n
        /\ Len(node[n].frames) = 3
        /\ node[n].frames[1].format # node[n].frames[2].format
        /\ last.arg.k > HEADER_SIZE
        /\ Len(last.ret.messages) = 2
        /\ Len(last.ret.remaining) = last.arg.k

validName(v, key) ==
    /\ isObject(v)
    /\ hasProperty(v, key)
    /\ isString(property(v, key))
    /\ property(v, key)[2] # <<>>

\* C29: decoding a frame whose value lacks namespace or type, or has one of
\* them not a string or the empty string, throws the invalid-message error
\* and returns no message.
InvalidEnvelopeIsRejected ==
    (/\ last.op = "decodeOne"
     /\ last.arg.flags \in {FLAG_FORMAT_MSGPACK, FLAG_FORMAT_JSON}
     /\ ~(validName(last.arg.value, KeyNamespace)
          /\ validName(last.arg.value, KeyType)))
    => /\ last.ret.status = "thrown"
       /\ last.ret.error = "Invalid message format"

-----------------------------------------------------------------------------
(* The device index of the transport *)

\* The connected rows of node state s that are bound to device d.
connectedRowsOf(s, d) ==
    {c \in DOMAIN s.connections :
        /\ s.connections[c].status = "connected"
        /\ s.connections[c].deviceId = d}

\* C31: in every reachable state no two connected rows are bound to the
\* same device, and for every connected row bound to device d
\* getConnectionByDeviceId(d) is a connected row bound to d.
DeviceIndexIsOneToOne ==
    \A n \in Nodes : \A d \in DeviceIds :
        connectedRowsOf(node[n], d) # {}
        => /\ Cardinality(connectedRowsOf(node[n], d)) = 1
           /\ hasConnectionByDeviceId(node[n], d)
           /\ node[n].deviceToConnection[d] \in connectedRowsOf(node[n], d)

-----------------------------------------------------------------------------
(* One transport whose peer announces any device on its connections.      *)

\* The frames peer t sends: announces of itself and of another device, and
\* an envelope of its application.
IdentityFrames(t) ==
    {meshEnvelope(createMeshMessage("device:announce", t,
                      [device |-> remoteDevice(d, "online", Null)])) :
        d \in {t, DevC}}
    \cup {appEnvelope("update", t)}

InitIdentity == InitTransport

NextIdentity ==
    \/ StartNode(DevB)
    \/ \E t \in {DevA} :
          \/ Connect(DevB, t)
          \/ EnvDialConnected(DevB, t)
          \/ EnvDialDisconnect(DevB, t)
          \/ ReconnectTimeout(DevB, t)
          \/ EnvWsConnect(DevB, t)
          \/ EnvWsDisconnect(DevB, t)
          \/ \E c \in {DialId(t), IncomingId(t)} :
                \E f \in IdentityFrames(t) : EnvFrame(DevB, c, t, f)

SpecIdentity == InitIdentity /\ [][NextIdentity]_vars

\* C32: the device id of a connection, once set, stays what it is as long
\* as the connection lives, whatever announces arrive on it.
DeviceIdIsBoundOnce ==
    [][\A n \in Nodes :
          \A c \in DOMAIN node[n].connections \cap DOMAIN node'[n].connections :
             node[n].connections[c].deviceId # Null
             => node'[n].connections[c].deviceId =
                   node[n].connections[c].deviceId]_vars

-----------------------------------------------------------------------------
(* Roles in the device table *)

\* The devices, the local one included, that have the role primary in the
\* table of node n with state s.
primaries(n, s) ==
    {d \in DOMAIN s.devices : s.devices[d].role = "primary"}
    \cup (IF s.localRole = "primary" THEN {n} ELSE {})

\* C33: in every reachable state at most one device of a node's table, the
\* local device included, has the role primary, and it is the device that
\* getPrimaryId() of the table returns.
SinglePrimaryRole ==
    \A n \in Nodes :
        /\ Cardinality(primaries(n, node[n])) <= 1
        /\ \A d \in primaries(n, node[n]) : node[n].dmPrimaryId = d

-----------------------------------------------------------------------------
(* Joining a round *)

\* C34: election:start on a configured node that is not collecting makes it
\* collecting with its own candidacy as the only candidate, broadcasts that
\* candidacy to every connected row and arms the round timer; on a node
\* that is collecting already it changes neither the phase, the candidates
\* nor the timers and sends nothing.
JoiningARound ==
    [][\A n \in Nodes :
          (/\ last'.self = n
           /\ isDataOf(last', "election:start")
           /\ node[n].config)
          => LET mine == myCandidate(n, node[n])
                 candidacy == meshEnvelope(
                     createMeshMessage("election:candidate", n, mine))
                 connected == {c \in DOMAIN node[n].connections :
                                  node[n].connections[c].status = "connected"}
             IN  IF node[n].phase # "collecting"
                 THEN /\ node'[n].phase = "collecting"
                      /\ node'[n].candidates = <<mine>>
                      /\ node'[n].timeoutHandle = "armed"
                      /\ Len(last'.out) = Cardinality(connected)
                      /\ \A i \in DOMAIN last'.out :
                            last'.out[i].data = candidacy
                 ELSE /\ node'[n].phase = node[n].phase
                      /\ node'[n].candidates = node[n].candidates
                      /\ node'[n].timeoutHandle = node[n].timeoutHandle
                      /\ node'[n].gracePeriodHandle =
                            node[n].gracePeriodHandle
                      /\ last'.out = <<>>]_vars

JoiningARoundWitness ==
    \E n \in Nodes :
        /\ last.self = n
        /\ isDataOf(last, "election:start")
        /\ node[n].phase = "collecting"
        /\ node[n].timeoutHandle = "armed"
        /\ Len(node[n].candidates) = 1
        /\ last.out # <<>>

-----------------------------------------------------------------------------
(* The bus with handlers that subscribe and unsubscribe handlers of their *)
(* own namespace while a message is dispatched.                           *)

ReentrantHandlers ==
    {<<"app", 1>>, <<"app", 2>>, <<"subscribing", 2>>, <<"unsubscribing", 1>>}

InitReentrant == InitBus

NextReentrant ==
    \/ \E h \in ReentrantHandlers : Subscribe(DevB, "chat", h)
    \/ \E d \in node[DevB].held : Unsubscribe(DevB, d)
    \/ \E m \in BusMessages(DevA) : Dispatch(DevB, m)

SpecReentrant == InitReentrant /\ [][NextReentrant]_vars

\* The handlers a call invoked, in the order of the calls.
invoked(events) ==
    LET handled == SelectSeq(events, LAMBDA e : e.ev = "handled")
    IN  [i \in DOMAIN handled |-> handled[i].handler]

\* C35: a dispatch invokes exactly the handlers that were subscribed to the
\* namespace of the message when it began, also when one of them subscribes
\* or unsubscribes a handler of that namespace.
DispatchInvokesSnapshot ==
    last.op = "dispatch" =>
        invoked(last.events) =
            IF last.arg.namespace \in DOMAIN last.pre
            THEN last.pre[last.arg.namespace] ELSE <<>>

-----------------------------------------------------------------------------
(* The adapter and a peer whose sync messages name any device as the      *)
(* owner of the slice they carry.                                         *)

OwnershipMessages(n, t) ==
    {[from |-> f, namespace |-> "sync", type |-> type,
      payload |-> [storeId |-> "tasks", deviceId |-> d, version |-> v]] :
        f \in {t, n, Null},
        type \in {"store:sync:full", "store:sync:update"},
        d \in {t, n}, v \in 1..MaxVersion}

InitOwnership == InitSync

NextOwnership ==
    \/ AdapterStart(DevB)
    \/ AdapterStop(DevB)
    \/ \E storeId \in StoreIds : LocalChanged(DevB, storeId)
    \/ \E m \in OwnershipMessages(DevB, DevA) : Dispatch(DevB, m)

SpecOwnership == InitOwnership /\ [][NextOwnership]_vars

\* C36: the adapter hands a slice to applyRemoteSlice only for a message
\* whose sender is present and is not the local device, and only a slice
\* whose deviceId is not the local device id.
RemoteSliceIsNotLocal ==
    last.op = "dispatch" =>
        \A i \in DOMAIN last.events :
            isApply(last.events[i])
            => /\ last.arg.from # Null
               /\ last.arg.from # last.self
               /\ last.events[i].slice.deviceId # last.self

-----------------------------------------------------------------------------
(* The node whose sidecar may fail to start.                              *)

\* MeshNode.start up to `await this.sidecar.start(...)`, which rejects: the
\* rest of start is not run and the rejection goes to the caller.
startRejected(self, s0) ==
    eval(s0, LAMBDA s :
        IF s.running THEN s
        ELSE [s EXCEPT !.startedAt = now, !.running = TRUE, !.config = TRUE])

StartNodeRejected(n) ==
    /\ ~node[n].running
    /\ Step(n, startRejected(n, node[n]), net, "startRejected", Null)
    /\ UNCHANGED <<now, budget>>

\* start() has gone past the start of the sidecar: the transport listens.
Started(n) == node[n].localStatus = "online"

InitStartup == InitDevices

NextStartup ==
    \/ StartNode(DevB)
    \/ StartNodeRejected(DevB)
    \/ StopNode(DevB)
    \/ RoundTimeout(DevB)
    \/ GraceTimeout(DevB)
    \/ DiscoveryTimeout(DevB)
    \/ \E t \in {DevA} :
          \/ Started(DevB) /\ EnvWsConnect(DevB, t)
          \/ Started(DevB) /\ EnvWsDisconnect(DevB, t)
          \/ \E f \in DeviceFrames(t) :
                Started(DevB) /\ EnvFrame(DevB, IncomingId(t), t, f)
          \/ \E peers \in Listings(t) :
                Started(DevB) /\ EnvTailnetPeers(DevB, peers)

SpecStartup == InitStartup /\ [][NextStartup]_vars

\* C37: when start() has rejected because the sidecar failed to start, the
\* node is not running, so that a later start() is attempted again, and the
\* call has armed no timer.
FailedStartLeavesStopped ==
    [][\A n \in Nodes :
          (last'.op = "startRejected" /\ last'.self = n)
          => /\ ~node'[n].running
             /\ armedTimers(node'[n]) \subseteq armedTimers(node[n])]_vars

-----------------------------------------------------------------------------
(* The two records of the primary inside a node *)

\* C38: when a node has handled a primaryElected event or a device:list,
\* the primary of its device table is the primary of its election, and its
\* own role is primary exactly when that primary is the node itself, also
\* when the elected device is not in the device table or has the role
\* already.
PrimaryViewsAgree ==
    \A n \in Nodes :
        (/\ last.self = n
         /\ \/ hasEvent(last.events, "primaryElected")
            \/ isMeshMessage(last, "device:list"))
        => /\ node[n].dmPrimaryId = node[n].primaryId
           /\ node[n].localRole = "primary" <=> node[n].primaryId = n

-----------------------------------------------------------------------------
(* The announce of an established dial *)

\* The mesh messages of one type among the sends of a handler.
sendsOf(out, type) ==
    SelectSeq(out, LAMBDA o :
        /\ o.via # "cmd"
        /\ o.data.namespace = "mesh"
        /\ o.data.payload.type = type)

\* C39: when the dial of a connect() has succeeded, 'connected' is emitted
\* once for the connection: the node sends its device:announce once on it
\* and, when it is the primary, its device:list once.
OneConnectedPerDial ==
    (/\ last.op = "dialConnected"
     /\ DialId(last.arg) \in DOMAIN node[last.self].connections)
    => /\ Len(sendsOf(last.out, "device:announce")) = 1
       /\ Len(sendsOf(last.out, "device:list")) <= 1

-----------------------------------------------------------------------------
(* Disposers of the bus *)

\* C40: a disposer removes the subscription it was returned for and no
\* other: every other handler registered before the call is registered
\* after it, also when the disposer is called a second time or after its
\* namespace was subscribed to again.
DisposerRemovesOnlyItsOwn ==
    last.op = "unsubscribe" =>
        \A ns \in DOMAIN last.pre : \A i \in DOMAIN last.pre[ns] :
            (ns # last.arg.namespace \/ last.pre[ns][i] # last.arg.handler)
            => /\ ns \in DOMAIN registry(node[last.self])
               /\ seqHas(registry(node[last.self])[ns], last.pre[ns][i])

=============================================================================
